---- MODULE Spec2Model ----
(***************************************************************************)
(* Model of the mycoin full node: block index and chain selection          *)
(* (node/node.go, node/consensus.go), block and transaction validation     *)
(* (node/verify.go, blockchain/block.go), the UTXO set                     *)
(* (blockchain/utxo.go), the mempool (mempool/mempool.go) and the          *)
(* headers-first protocol handler (network handler, src/unnamed/part_001). *)
(*                                                                         *)
(* Hashes, keys and signatures are abstract values: a block or transaction *)
(* is named by its hash, a signature records the key that made it, and     *)
(* 256-bit targets are kept in units of 2^208 (work in units of 2^20).     *)
(***************************************************************************)
EXTENDS Integers, Sequences, FiniteSets, TLC

\* ------------------------------------------------------------------------
\* Bounds of the model
\* ------------------------------------------------------------------------
\* number of operations (deliveries, admissions, restarts) issued in a run
MaxOps == 4
\* height of the honest peer's chain in the headers-first scenario
MaxPeerHeight == 17
MaxSmallTarget == 300

\* ------------------------------------------------------------------------
\* Program constants
\* ------------------------------------------------------------------------
DifficultyInterval == 10
MaxPeers == 16
IntervalTimespan == 10
Reward == 100
GenesisReward == 1000000
GenesisTimestamp == 1700000000
MaxTx == 1000
MaxHeaders == 2000
HeaderBatch == 500
BodyBatch == 16
\* compact bits of the genesis target 0x00000fff..ff and of the retarget cap
GenesisBits == 504365055
MaxTargetBits == 487587839
\* 2^256 in the model's units (target unit 2^208, work unit 2^20)
WorkNumerator == 268435456

StateInit == 0
StateVersionSent == 1
StateVersionRecv == 2
StateActive == 3

SyncIdle == 0
SyncIBD == 1
SyncHeaders == 2
SyncBodies == 3
SyncSynced == 4

\* ------------------------------------------------------------------------
\* Generic helpers on maps and sequences
\* ------------------------------------------------------------------------
EmptyMap == [x \in {} |-> 0]
MapPut(m, k, v) == [x \in DOMAIN m \cup {k} |-> IF x = k THEN v ELSE m[x]]
MapDel(m, k) == [x \in DOMAIN m \ {k} |-> m[x]]
Range(s) == {s[i] : i \in DOMAIN s}
Only(S) == CHOOSE x \in S : TRUE

\* ------------------------------------------------------------------------
\* Transactions
\* ------------------------------------------------------------------------
NoTx == <<"", "", 0>>
NoBlock == <<"", 0>>
NoTask == "none"
NoPeer == "none"

\* PubKeyToAddress: base58check(0x00 || RIPEMD160(SHA256(pubkey)))
PubKeyToAddress(pub) == <<"addr", pub>>

\* NewCoinbase: one dummy input, one output paying the reward
NewCoinbase(id, to, reward) ==
    [ID |-> id,
     Inputs |-> <<[TxID |-> NoTx, Index |-> -1, Sig |-> "timestamp", PubKey |-> "Coinbase"]>>,
     Outputs |-> <<[Amount |-> reward, To |-> to]>>,
     IsCoinbase |-> TRUE]

\* a signed payment spending output 0 of `src`; Sig names the signing key
Payment(id, src, key, amount, to) ==
    [ID |-> id,
     Inputs |-> <<[TxID |-> src, Index |-> 0, Sig |-> key, PubKey |-> key]>>,
     Outputs |-> <<[Amount |-> amount, To |-> PubKeyToAddress(to)]>>,
     IsCoinbase |-> FALSE]

\* the literal recipient "GENESIS": no public key hashes to it
GenesisAddress == <<"GENESIS", "">>

CbId(b) == <<"cb", b[1], b[2]>>
T1 == <<"tx", "T1", 0>>
T2 == <<"tx", "T2", 0>>
T3 == <<"tx", "T3", 0>>
T0 == <<"tx", "T0", 0>>
T5 == <<"tx", "T5", 0>>
T7 == <<"tx", "T7", 0>>

\* a transaction without inputs whose single output carries a negative
\* amount: Fee gives it the fee -amount
Gift(id, amount) ==
    [ID |-> id, Inputs |-> <<>>,
     Outputs |-> <<[Amount |-> amount, To |-> PubKeyToAddress("K2")]>>,
     IsCoinbase |-> FALSE]

\* the transactions that peers, the miner and RPC clients submit
TxOf(id) ==
    CASE id = T1 -> Payment(T1, <<"cb", "P", 1>>, "K1", Reward - 1, "K2")
      [] id = T2 -> Payment(T2, <<"cb", "P", 1>>, "K1", Reward - 2, "K2")
      [] id = T3 -> Payment(T3, <<"cb", "C", 1>>, "K1", Reward - 1, "K2")
      [] id = T0 -> [ID |-> T0, Inputs |-> <<>>, Outputs |-> <<>>, IsCoinbase |-> FALSE]
      [] id = T5 -> Gift(T5, -5)
      [] id = T7 -> Gift(T7, -7)
      [] id = <<"cb", "G", 0>> -> NewCoinbase(id, GenesisAddress, GenesisReward)
      [] id = <<"cb", "R", 1>> -> NewCoinbase(id, PubKeyToAddress("K1"), Reward + 1)
      [] OTHER -> NewCoinbase(id, PubKeyToAddress("K1"), Reward)

UserTxs == {T1, T2}

\* Transaction identifiers as the constructors compute them.  sha256 is
\* taken to be injective; a string written to the hash is the sequence of
\* its pieces, so that writing "" adds nothing.
sha256(data) == <<"sha256", data>>
Bytes(str) == IF str = "" THEN <<>> ELSE <<str>>

cloneWithoutSign(tx) ==
    [tx EXCEPT !.ID = NoTx,
               !.Inputs = [i \in DOMAIN tx.Inputs |->
                              [tx.Inputs[i] EXCEPT !.Sig = "", !.PubKey = ""]]]

\* CalcID: the hash of the JSON of the transaction without signatures
CalcID(tx) == sha256([json |-> cloneWithoutSign(tx)])

\* DeterministicID: the flag, then per input TxID, Index, Sig and PubKey,
\* then per output Amount and To, each list after its length
DeterministicID(tx) ==
    sha256([flag |-> tx.IsCoinbase,
            ins |-> [i \in DOMAIN tx.Inputs |->
                        [TxID |-> tx.Inputs[i].TxID, Index |-> tx.Inputs[i].Index,
                         rest |-> Bytes(tx.Inputs[i].Sig) \o Bytes(tx.Inputs[i].PubKey)]],
            outs |-> tx.Outputs])

NewTransaction(inputs, outputs) ==
    [ID |-> CalcID([ID |-> NoTx, Inputs |-> inputs, Outputs |-> outputs, IsCoinbase |-> FALSE]),
     Inputs |-> inputs, Outputs |-> outputs, IsCoinbase |-> FALSE]

\* NewCoinbase with the string sig (the genesis text or a timestamp) in
\* the Sig field of its dummy input
StampedCoinbase(to, reward, sig) ==
    [ID |-> DeterministicID([NewCoinbase(NoTx, to, reward) EXCEPT !.Inputs[1].Sig = sig]),
     Inputs |-> [NewCoinbase(NoTx, to, reward) EXCEPT !.Inputs[1].Sig = sig].Inputs,
     Outputs |-> NewCoinbase(NoTx, to, reward).Outputs,
     IsCoinbase |-> TRUE]

\* Transaction.Sign: every input gets the signer's public key and its
\* signature; the ID field is left as it is
Sign(tx, key) ==
    IF tx.IsCoinbase THEN tx
    ELSE [tx EXCEPT !.Inputs = [i \in DOMAIN tx.Inputs |->
                                   [tx.Inputs[i] EXCEPT !.PubKey = key, !.Sig = key]]]

utxoKey(txid, index) == <<txid, index>>

\* ------------------------------------------------------------------------
\* Compact target codec and work (utils/format.go, node/node.go)
\* A target is held in units of 256^TargetUnitBytes.
\* ------------------------------------------------------------------------
TargetUnitBytes == 26

Shift(m, k) == IF k >= 0 THEN m * (256 ^ k) ELSE m \div (256 ^ (0 - k))

ByteLen(n) == IF n < 256 THEN 1 ELSE IF n < 65536 THEN 2 ELSE IF n < 16777216 THEN 3 ELSE 4

\* CompactToBig for a result held in units of 256^unit
CompactToBigIn(bits, unit) ==
    LET exponent == bits \div 16777216
        mantissa == bits % 8388608
        result == Shift(mantissa, exponent - 3 - unit)
    IN  IF (bits \div 8388608) % 2 = 1 THEN 0 - result ELSE result

CompactToBig(bits) == CompactToBigIn(bits, TargetUnitBytes)

\* BigToCompact for the number n * 256^unit
BigToCompactIn(n, unit) ==
    IF n <= 0 THEN 0
    ELSE LET lenBytes == ByteLen(n) + unit
             m0 == Shift(n, 3 - ByteLen(n))
             e0 == IF lenBytes <= 3 THEN 3 ELSE lenBytes
             mantissa == IF (m0 \div 8388608) % 2 = 1 THEN m0 \div 256 ELSE m0
             exponent == IF (m0 \div 8388608) % 2 = 1 THEN e0 + 1 ELSE e0
         IN  exponent * 16777216 + mantissa

BigToCompact(n) == BigToCompactIn(n, TargetUnitBytes)

\* node.Target, 0x00000fff..ff, and the retarget cap 0x0000000fff..ff
NodeTarget == 268435455
MaxTarget == 1048575

\* floor(2^256 / (target + 1)) in work units, for a target given in target
\* units: the +1 only matters when the target divides 2^256
scaledWork(target) ==
    IF WorkNumerator % target = 0 THEN WorkNumerator \div target - 1 ELSE WorkNumerator \div target

computeWork(target) ==
    IF target <= 0 THEN 1
    ELSE IF scaledWork(target) = 0 THEN 1 ELSE scaledWork(target)

\* a block without a target (nil) has work 0
WorkFromTarget(target) == IF target <= 0 THEN 0 ELSE scaledWork(target)

\* an attacker's claimed cumulative work in a header
HugeWork == 100000

\* ------------------------------------------------------------------------
\* Blocks: <<branch, height>> names a block; Hash is the hash it declares
\* ------------------------------------------------------------------------
Genesis == <<"G", 0>>

\* P is the honest main branch, C a competing branch from genesis whose
\* second block spends the coinbase of its first, X a block that spends
\* an output its own branch never created
\* R pays its miner more than the reward, D carries a second transaction
\* flagged as coinbase, E carries no transaction, L carries its coinbase
\* last, M carries a body its header does not commit to, W has a hash above
\* the target of its Bits, S is a block on genesis that confirms T0, F is a
\* block on genesis whose Hash field is the hash of P1, B(h) is a block on
\* P(h-1) whose Bits are those of the other difficulty period
BlockTxs(id) ==
    CASE id = <<"P", 2>> -> <<CbId(id), T1>>
      [] id = <<"C", 2>> -> <<CbId(id), T3>>
      [] id = <<"X", 1>> -> <<CbId(id), T2>>
      [] id = <<"S", 1>> -> <<CbId(id), T0>>
      [] id = <<"D", 1>> -> <<CbId(id), CbId(<<"D", 2>>)>>
      [] id = <<"E", 1>> -> <<>>
      [] id = <<"L", 1>> -> <<T1, CbId(id)>>
      [] OTHER -> <<CbId(id)>>

\* ComputeMerkleRoot: the ids are paired level by level, the last one with
\* itself when the level is odd; hashPair is an injective digest
hashPair(a, b) == <<"h", a, b>>

pairUp(layer) ==
    [i \in 1..((Len(layer) + 1) \div 2) |->
        IF 2 * i > Len(layer) THEN hashPair(layer[2 * i - 1], layer[2 * i - 1])
        ELSE hashPair(layer[2 * i - 1], layer[2 * i])]

RECURSIVE reduceLayer(_)
reduceLayer(layer) == IF Len(layer) <= 1 THEN layer[1] ELSE reduceLayer(pairUp(layer))

ComputeMerkleRoot(txs) == IF Len(txs) = 0 THEN <<"sha256", "", 0>> ELSE reduceLayer(txs)

\* the Merkle root a block's header declares
BlockMerkle(id) ==
    CASE id = <<"M", 1>> -> ComputeMerkleRoot(<<CbId(<<"P", 1>>)>>)
      [] OTHER -> ComputeMerkleRoot(BlockTxs(id))

BlockPrev(id) ==
    CASE id = Genesis -> NoBlock
      [] id[2] = 1 -> Genesis
      [] id[1] = "B" -> <<"P", id[2] - 1>>
      [] OTHER -> <<id[1], id[2] - 1>>

BlockBits(id) ==
    CASE id[1] = "B" /\ id[2] >= DifficultyInterval -> GenesisBits
      [] id[1] = "B" -> MaxTargetBits
      [] id[2] >= DifficultyInterval -> MaxTargetBits
      [] OTHER -> GenesisBits

\* the Hash field as the sender filled it in (DTOToBlock copies it)
BlockHash(id) ==
    CASE id = <<"F", 1>> -> <<"P", 1>>
      [] OTHER -> id

Blk(id) ==
    [Id |-> id,
     Hash |-> BlockHash(id),
     PrevHash |-> BlockPrev(id),
     Height |-> id[2],
     Bits |-> BlockBits(id),
     Target |-> CompactToBig(BlockBits(id)),
     Timestamp |-> GenesisTimestamp + 2 * id[2],
     Pow |-> id[1] # "W",
     MerkleRoot |-> BlockMerkle(id),
     Transactions |-> BlockTxs(id)]

\* blocks offered to the node by arbitrary peers and by the miner
Offered == {<<"P", 1>>, <<"P", 2>>, <<"C", 1>>, <<"C", 2>>, <<"X", 1>>}

\* blocks a dishonest miner offers with a valid proof of work
Forged == {<<"R", 1>>, <<"D", 1>>, <<"E", 1>>, <<"L", 1>>, <<"M", 1>>, <<"F", 1>>}

\* Q is a competing branch from genesis whose blocks hold only their
\* coinbase; the blocks that decide between the branches P and Q
SideBranch == {<<"Q", 3>>, <<"P", 3>>, <<"P", 4>>}

\* the honest peer's main chain in the headers-first scenario
PeerChain(h) == [i \in 1..(h + 1) |-> IF i = 1 THEN Genesis ELSE <<"P", i - 1>>]

\* ------------------------------------------------------------------------
\* UTXO set (blockchain/utxo.go).  u is the in-memory Set, db the "utxo"
\* bucket that every UTXOSet sharing the database handle writes through.
\* ------------------------------------------------------------------------
\* Go output index i is 0-based; Outputs[i + 1] is the TLA+ element
UtxoOf(tx, i) == [TxID |-> tx.ID, Index |-> i, Amount |-> tx.Outputs[i + 1].Amount, To |-> tx.Outputs[i + 1].To]

UTXOAdd(s, tx) ==
    LET keys == {utxoKey(tx.ID, i) : i \in 0..(Len(tx.Outputs) - 1)}
        put(m) == [k \in DOMAIN m \cup keys |-> IF k \in keys THEN UtxoOf(tx, k[2]) ELSE m[k]]
    IN  [Set |-> put(s.Set), DB |-> put(s.DB)]

RECURSIVE SpendFrom(_, _, _)
SpendFrom(s, inputs, i) ==
    IF i > Len(inputs) THEN [Set |-> s.Set, DB |-> s.DB, ok |-> TRUE]
    ELSE LET in == inputs[i]
             key == utxoKey(in.TxID, in.Index)
         IN  IF key \notin DOMAIN s.Set THEN [Set |-> s.Set, DB |-> s.DB, ok |-> FALSE]
             ELSE IF s.Set[key].To # PubKeyToAddress(in.PubKey)
                  THEN [Set |-> s.Set, DB |-> s.DB, ok |-> FALSE]
             ELSE SpendFrom([Set |-> MapDel(s.Set, key), DB |-> MapDel(s.DB, key)], inputs, i + 1)

UTXOSpend(s, tx) ==
    IF tx.IsCoinbase THEN [Set |-> s.Set, DB |-> s.DB, ok |-> TRUE]
    ELSE SpendFrom(s, tx.Inputs, 1)

\* Clone copies the map and keeps the database handle
UTXOClone(s) == [Set |-> s.Set, DB |-> s.DB]

SumAmounts(f, S) ==
    LET RECURSIVE Sum(_)
        Sum(T) == IF T = {} THEN 0 ELSE LET x == CHOOSE y \in T : TRUE IN f[x] + Sum(T \ {x})
    IN  Sum(S)

InputKeys(tx) == {utxoKey(tx.Inputs[i].TxID, tx.Inputs[i].Index) : i \in DOMAIN tx.Inputs}

InSum(tx, set) ==
    SumAmounts([i \in DOMAIN tx.Inputs |->
                   set[utxoKey(tx.Inputs[i].TxID, tx.Inputs[i].Index)].Amount], DOMAIN tx.Inputs)
OutSum(tx) == SumAmounts([i \in DOMAIN tx.Outputs |-> tx.Outputs[i].Amount], DOMAIN tx.Outputs)

\* Transaction.Fee
Fee(tx, set) ==
    IF tx.IsCoinbase THEN 0
    ELSE IF \E k \in InputKeys(tx) : k \notin DOMAIN set THEN 0
    ELSE IF InSum(tx, set) - OutSum(tx) < 0 THEN 0
    ELSE InSum(tx, set) - OutSum(tx)

\* a DER signature verifies under the key that made it
SigVerifies(in) == in.Sig = in.PubKey /\ in.PubKey \in {"K1", "K2"}

\* Transaction.Verify (signatures only)
TxVerify(tx) == tx.IsCoinbase \/ \A i \in DOMAIN tx.Inputs : SigVerifies(tx.Inputs[i])

\* node.VerifyTx against a given UTXO map
VerifyTx(tx, set) ==
    \/ tx.IsCoinbase
    \/ /\ \A i \in DOMAIN tx.Inputs :
            LET in == tx.Inputs[i]
                key == utxoKey(in.TxID, in.Index)
            IN  /\ key \in DOMAIN set
                /\ PubKeyToAddress(in.PubKey) = set[key].To
                /\ SigVerifies(in)
       /\ InSum(tx, set) >= OutSum(tx)

\* ------------------------------------------------------------------------
\* Mempool (mempool/mempool.go).  m = [Txs, Spent, DB, MaxTx]: resident
\* txids, the spent-map, the "mempool" bucket and the capacity.
\* ------------------------------------------------------------------------
findConflicts(m, tx) == {m.Spent[k] : k \in InputKeys(tx) \cap DOMAIN m.Spent}

HasDoubleSpend(m, tx) == \E k \in InputKeys(tx) : k \in DOMAIN m.Spent

removeTxUnsafe(m, txid) ==
    [Txs |-> m.Txs \ {txid},
     Spent |-> IF txid \in m.Txs
               THEN [k \in DOMAIN m.Spent \ InputKeys(TxOf(txid)) |-> m.Spent[k]]
               ELSE m.Spent,
     DB |-> m.DB \ {txid},
     MaxTx |-> m.MaxTx]

RECURSIVE removeAll(_, _)
removeAll(m, ids) ==
    IF ids = {} THEN m
    ELSE LET x == CHOOSE y \in ids : TRUE IN removeAll(removeTxUnsafe(m, x), ids \ {x})

\* the scan keeping the resident with the highest fee
findHighestFeeTx(m, set) ==
    IF m.Txs = {} THEN NoTx
    ELSE CHOOSE x \in m.Txs : \A y \in m.Txs : Fee(TxOf(x), set) >= Fee(TxOf(y), set)

findLowestFeeTx(m, set) ==
    IF m.Txs = {} THEN NoTx
    ELSE CHOOSE x \in m.Txs : \A y \in m.Txs : Fee(TxOf(x), set) <= Fee(TxOf(y), set)

\* addTxUnsafe stores the transaction, claims its first input and then
\* calls m.Has, which locks the mutex AddTxRBF already holds: with at
\* least one input the caller never returns (hang).
addTxUnsafe(m, txid, tx) ==
    LET stored == [m EXCEPT !.Txs = @ \cup {txid}, !.DB = @ \cup {txid}]
    IN  IF Len(tx.Inputs) = 0 THEN [m |-> stored, ok |-> TRUE, hang |-> FALSE]
        ELSE [m |-> [stored EXCEPT !.Spent =
                        MapPut(m.Spent, utxoKey(tx.Inputs[1].TxID, tx.Inputs[1].Index), txid)],
              ok |-> FALSE, hang |-> TRUE]

\* the capacity step with the eviction done before the fees are compared
evictAndAddEvictsFirst(m1, txid, newFee, lowest, set) ==
    IF Cardinality(m1.Txs) < m1.MaxTx THEN addTxUnsafe(m1, txid, TxOf(txid))
    ELSE IF lowest = NoTx THEN [m |-> m1, ok |-> FALSE, hang |-> FALSE]
    ELSE IF newFee <= Fee(TxOf(lowest), set)
         THEN [m |-> removeTxUnsafe(m1, lowest), ok |-> FALSE, hang |-> FALSE]
    ELSE addTxUnsafe(removeTxUnsafe(m1, lowest), txid, TxOf(txid))

\* AddTxRBF once the conflicts are removed: capacity eviction, insertion
evictAndAdd(m1, txid, newFee, lowest, set) ==
    IF Cardinality(m1.Txs) < m1.MaxTx THEN addTxUnsafe(m1, txid, TxOf(txid))
    ELSE IF lowest = NoTx THEN [m |-> m1, ok |-> FALSE, hang |-> FALSE]
    ELSE IF newFee <= Fee(TxOf(lowest), set) THEN [m |-> m1, ok |-> FALSE, hang |-> FALSE]
    ELSE addTxUnsafe(removeTxUnsafe(m1, lowest), txid, TxOf(txid))

replaceByFee(m, txid, newFee, conflicts, set) ==
    IF \E old \in conflicts : newFee <= Fee(TxOf(old), set)
    THEN [m |-> m, ok |-> FALSE, hang |-> FALSE]
    ELSE evictAndAdd(removeAll(m, conflicts), txid, newFee,
                     findLowestFeeTx(removeAll(m, conflicts), set), set)

AddTxRBF(m, txid, set) ==
    replaceByFee(m, txid, Fee(TxOf(txid), set), findConflicts(m, TxOf(txid)), set)

\* ------------------------------------------------------------------------
\* Block validation (blockchain/block.go, node/verify.go)
\* ------------------------------------------------------------------------
\* Block.CalcHash: the digest of the header fields; the header of block id
\* and no other hashes to id
CalcHash(b) == b.Id

\* Block.Verify: link to the parent body when there is one, proof of work,
\* signatures
BlockVerify(b, prev) ==
    /\ prev # NoBlock => (b.PrevHash = Blk(prev).Hash /\ b.Height = Blk(prev).Height + 1)
    /\ b.Pow
    /\ \A i \in DOMAIN b.Transactions : TxVerify(TxOf(b.Transactions[i]))

\* runs the transactions from index i on the clone tmp
RECURSIVE VerifyTxsFrom(_, _, _)
VerifyTxsFrom(tmp, txs, i) ==
    IF i > Len(txs) THEN [DB |-> tmp.DB, ok |-> TRUE]
    ELSE LET tx == TxOf(txs[i])
         IN  IF i = 1 THEN VerifyTxsFrom(UTXOAdd(tmp, tx), txs, 2)
             ELSE IF ~VerifyTx(tx, tmp.Set) THEN [DB |-> tmp.DB, ok |-> FALSE]
             ELSE LET sp == UTXOSpend(tmp, tx)
                  IN  IF ~sp.ok THEN [DB |-> sp.DB, ok |-> FALSE]
                      ELSE VerifyTxsFrom(UTXOAdd([Set |-> sp.Set, DB |-> sp.DB], tx), txs, i + 1)

\* VerifyBlockWithUTXO: returns the verdict and the "utxo" bucket as the
\* clone's writes leave it
VerifyBlockWithUTXO(b, parentBody, s) ==
    IF ~BlockVerify(b, parentBody) THEN [DB |-> s.DB, ok |-> FALSE]
    ELSE IF Len(b.Transactions) = 0 \/ ~TxOf(b.Transactions[1]).IsCoinbase
         THEN [DB |-> s.DB, ok |-> FALSE]
    ELSE VerifyTxsFrom(UTXOClone(s), b.Transactions, 1)

\* ------------------------------------------------------------------------
\* Block index and chain state (node/node.go, node/consensus.go).
\* n is the node: Blocks (hash -> index entry), Best (hash of the tip
\* entry), Chain, UTXO, Orphans, the sync flags, the mempool (Txs, Spent)
\* and the database buckets (dbBlocks, dbIndex, dbBest, dbUtxo, dbMempool).
\* An entry's Block is the body it holds and Parent the entry it points
\* to; NoBlock stands for nil.
\* ------------------------------------------------------------------------
BlockIndex(hash, prev, height, bits, ts, cw, body, parent) ==
    [Hash |-> hash, PrevHash |-> prev, Height |-> height, Bits |-> bits,
     Timestamp |-> ts, CumWork |-> cw, Block |-> body, Parent |-> parent]

utxoOf(n) == [Set |-> n.UTXO, DB |-> n.dbUtxo]
poolOf(n) == [Txs |-> n.Txs, Spent |-> n.Spent, DB |-> n.dbMempool, MaxTx |-> MaxTx]
withUtxo(n, s) == [n EXCEPT !.UTXO = s.Set, !.dbUtxo = s.DB]
withPool(n, m) == [n EXCEPT !.Txs = m.Txs, !.Spent = m.Spent, !.dbMempool = m.DB]

\* the loop "if !tx.IsCoinbase { Spend }; Add" with Spend's error dropped
applyTx(s, tx) == UTXOAdd([Set |-> UTXOSpend(s, tx).Set, DB |-> UTXOSpend(s, tx).DB], tx)

RECURSIVE ApplyTxs(_, _, _)
ApplyTxs(s, txs, i) ==
    IF i > Len(txs) THEN s
    ELSE Only({ApplyTxs(s2, txs, i + 1) : s2 \in {applyTx(s, TxOf(txs[i]))}})

updateUTXO(n, b) == withUtxo(n, ApplyTxs(utxoOf(n), b.Transactions, 1))

RECURSIVE ReplayChain(_, _, _)
ReplayChain(s, chain, i) ==
    IF i > Len(chain) THEN s
    ELSE Only({ReplayChain(s2, chain, i + 1) : s2 \in {ApplyTxs(s, Blk(chain[i]).Transactions, 1)}})

RebuildUTXO(n) == withUtxo(n, ReplayChain([Set |-> EmptyMap, DB |-> EmptyMap], n.Chain, 1))

NonCoinbase(b) == {b.Transactions[i] : i \in {j \in DOMAIN b.Transactions : ~TxOf(b.Transactions[j]).IsCoinbase}}

\* removeConfirmedTxs: delete from the bucket and Mempool.Remove
removeConfirmedTxs(n, b) ==
    LET m == removeAll(poolOf(n), NonCoinbase(b))
    IN  withPool(n, [m EXCEPT !.DB = m.DB \ NonCoinbase(b)])

\* bodies on the Parent walk from entry h, oldest first, skipping entries
\* without one
RECURSIVE BodiesTo(_, _)
BodiesTo(blocks, h) ==
    IF h = NoBlock THEN <<>>
    ELSE BodiesTo(blocks, blocks[h].Parent)
            \o (IF blocks[h].Block # NoBlock THEN <<blocks[h].Block>> ELSE <<>>)

\* the Parent walk from entry h, newest first
RECURSIVE PathFrom(_, _)
PathFrom(blocks, h) == IF h = NoBlock THEN <<>> ELSE <<h>> \o PathFrom(blocks, blocks[h].Parent)

RECURSIVE DownTo(_, _, _)
DownTo(blocks, h, height) ==
    IF h = NoBlock THEN NoBlock
    ELSE IF blocks[h].Height > height THEN DownTo(blocks, blocks[h].Parent, height)
    ELSE h

RECURSIVE CommonAncestor(_, _, _)
CommonAncestor(blocks, a, b) ==
    IF a = NoBlock \/ b = NoBlock THEN NoBlock
    ELSE IF a = b THEN a
    ELSE CommonAncestor(blocks, blocks[a].Parent, blocks[b].Parent)

RECURSIVE Until(_, _)
Until(path, stop) ==
    IF path = <<>> \/ Head(path) = stop THEN <<>> ELSE <<Head(path)>> \o Until(Tail(path), stop)

Reverse(s) == [i \in 1..Len(s) |-> s[Len(s) + 1 - i]]

\* reorgTo: the entries to disconnect (newest first) and to connect
\* (oldest first); both empty when no common ancestor is found
reorgTo(n, newTip) ==
    LET a == DownTo(n.Blocks, n.Best, n.Blocks[newTip].Height)
        b == IF a = NoBlock THEN NoBlock ELSE DownTo(n.Blocks, newTip, n.Blocks[a].Height)
        common == CommonAncestor(n.Blocks, a, b)
    IN  IF common = NoBlock THEN [old |-> <<>>, new |-> <<>>]
        ELSE [old |-> Until(PathFrom(n.Blocks, n.Best), common),
              new |-> Reverse(Until(PathFrom(n.Blocks, newTip), common))]

TxsOfEntries(n, path) ==
    UNION {Range(Blk(n.Blocks[path[i]].Block).Transactions) :
              i \in {j \in DOMAIN path : n.Blocks[path[j]].Block # NoBlock}}

\* rebuildChain without step 3A: the disconnected transactions are dropped
rebuildChainDropsOld(n, oldChain, newChain, newTip) ==
    [n EXCEPT !.Chain = BodiesTo(n.Blocks, newTip),
              !.Best = newTip,
              !.Txs = n.Txs \ TxsOfEntries(n, newChain),
              !.Spent = EmptyMap]

\* rebuildChain: Chain and Best follow newTip; the pool is cleared and the
\* disconnected and resident transactions are put straight back into Txs
rebuildChain(n, oldChain, newChain, newTip) ==
    LET confirmedInNewChain == TxsOfEntries(n, newChain)
        fromOld == {x \in TxsOfEntries(n, oldChain) : ~TxOf(x).IsCoinbase}
        txsToRestore == (fromOld \cup n.Txs) \ confirmedInNewChain
    IN  [n EXCEPT !.Chain = BodiesTo(n.Blocks, newTip),
                  !.Best = newTip,
                  !.Txs = txsToRestore,
                  !.Spent = EmptyMap]

\* retargetDifficulty: panic stands for the nil dereference when the walk
\* runs off the index or `last` or `first` holds no body
retargetDifficulty(blocks, last) ==
    LET first == DownTo(blocks, last, blocks[last].Height - DifficultyInterval + 1)
    IN  IF first = NoBlock \/ blocks[last].Block = NoBlock THEN [panic |-> TRUE, target |-> 0]
        ELSE IF blocks[first].Block = NoBlock THEN [panic |-> TRUE, target |-> 0]
        ELSE LET span == Blk(blocks[last].Block).Timestamp - Blk(blocks[first].Block).Timestamp
                 minTimespan == IntervalTimespan \div 4
                 maxTimespan == IntervalTimespan * 4
                 actualTimespan == IF span < minTimespan THEN minTimespan
                                   ELSE IF span > maxTimespan THEN maxTimespan ELSE span
                 oldTarget == Blk(blocks[last].Block).Target
                 \* oldTarget * actualTimespan / IntervalTimespan, split so that
                 \* the product stays inside the integer range
                 newTarget == (oldTarget \div IntervalTimespan) * actualTimespan
                                + ((oldTarget % IntervalTimespan) * actualTimespan) \div IntervalTimespan
             IN  [panic |-> FALSE, target |-> IF newTarget > MaxTarget THEN MaxTarget ELSE newTarget]

\* the Bits check at the head of connectBlock: "ok", "fail" or "panic"
expectBits(r, b) ==
    IF r.panic THEN "panic" ELSE IF BigToCompact(r.target) # b.Bits THEN "fail" ELSE "ok"

\* the Bits check without the retarget branch
bitsCheckFixedOnly(n, b, parent) ==
    IF (n.Blocks[parent].Height + 1) % DifficultyInterval = 0 THEN "ok"
    ELSE IF b.Bits # n.Blocks[parent].Bits THEN "fail" ELSE "ok"

bitsCheck(n, b, parent) ==
    IF (n.Blocks[parent].Height + 1) % DifficultyInterval = 0
    THEN expectBits(retargetDifficulty(n.Blocks, parent), b)
    ELSE IF b.Bits # n.Blocks[parent].Bits THEN "fail" ELSE "ok"

\* steps 3 and 4 of connectBlock: create or update the entry, persist
indexBlock(n, b, parent) ==
    LET cumWork == n.Blocks[parent].CumWork + computeWork(b.Target)
        bi == IF b.Hash \in DOMAIN n.Blocks
              THEN [n.Blocks[b.Hash] EXCEPT !.Block = b.Id, !.Bits = b.Bits,
                        !.Timestamp = b.Timestamp, !.Parent = parent, !.CumWork = cumWork]
              ELSE BlockIndex(b.Hash, n.Blocks[parent].Hash, n.Blocks[parent].Height + 1,
                              b.Bits, b.Timestamp, cumWork, b.Id, parent)
    IN  [n EXCEPT !.Blocks = MapPut(n.Blocks, b.Hash, bi),
                  !.dbBlocks = MapPut(n.dbBlocks, b.Hash, b.Id),
                  !.dbIndex = MapPut(n.dbIndex, b.Hash, bi)]

\* step 5 of connectBlock: extend, reorganise or keep as a side chain
reorganise(n, r, newTip) == RebuildUTXO(rebuildChain(n, r.old, r.new, newTip))

selectChain(n, b, parent) ==
    IF parent = n.Best
    THEN [removeConfirmedTxs(updateUTXO([n EXCEPT !.Best = b.Hash,
                                                  !.Chain = Append(n.Chain, b.Id)], b), b)
             EXCEPT !.dbBest = b.Hash]
    ELSE IF n.Blocks[b.Hash].CumWork > n.Blocks[n.Best].CumWork
    THEN [reorganise(n, reorgTo(n, b.Hash), b.Hash) EXCEPT !.dbBest = b.Hash]
    ELSE n

\* connectBlock, called with the node mutex held, in its steps: the Bits
\* check, the validation (skipped while syncing), indexing and chain
\* selection, the orphans.  "deadlock": step 6 calls attachOrphans, which
\* removes the waiting orphans and calls AddBlock, which locks the mutex
\* the caller holds.
connectOrphans(n1, b) ==
    IF b.Hash \in DOMAIN n1.Orphans
    THEN [n |-> [n1 EXCEPT !.Orphans = MapDel(n1.Orphans, b.Hash)], status |-> "deadlock"]
    ELSE [n |-> n1, status |-> "ok"]

connectVerified(n, b, parent, v) ==
    IF ~v.ok THEN [n |-> [n EXCEPT !.dbUtxo = v.DB], status |-> "fail"]
    ELSE connectOrphans(selectChain(indexBlock([n EXCEPT !.dbUtxo = v.DB], b, parent), b, parent), b)

connectChecked(n, b, parent, check) ==
    IF check # "ok" THEN [n |-> n, status |-> check]
    ELSE IF n.IsSyncing THEN connectVerified(n, b, parent, [DB |-> n.dbUtxo, ok |-> TRUE])
    ELSE connectVerified(n, b, parent, VerifyBlockWithUTXO(b, n.Blocks[parent].Block, utxoOf(n)))

connectBlock(n, b, parent) == connectChecked(n, b, parent, bitsCheck(n, b, parent))

AddOrphan(n, b) ==
    [n EXCEPT !.Orphans = MapPut(n.Orphans, b.PrevHash,
        (IF b.PrevHash \in DOMAIN n.Orphans THEN n.Orphans[b.PrevHash] ELSE <<>>) \o <<b.Id>>)]

\* AddBlock between Lock and Unlock.  status: "dup" (already held, returns
\* true), "orphan" and "fail" (return false), "ok" (returns true after the
\* unlocked tail), "deadlock", "panic"
AddBlockLocked(n, b) ==
    LET exists == b.Hash \in DOMAIN n.Blocks
        n0 == IF exists /\ n.Blocks[b.Hash].Block = NoBlock
              THEN [n EXCEPT !.Blocks[b.Hash].Block = b.Id] ELSE n
    IN  IF exists /\ n.Blocks[b.Hash].Block # NoBlock THEN [n |-> n, status |-> "dup"]
        ELSE IF b.PrevHash \notin DOMAIN n0.Blocks THEN [n |-> AddOrphan(n0, b), status |-> "orphan"]
        ELSE connectBlock(n0, b, b.PrevHash)

\* Node.AddTx between Lock and the deferred Unlock: "rejected", "ok", or
\* "hang" when addTxUnsafe blocks inside AddTxRBF
admitted(n, r) ==
    [n |-> withPool(n, r.m),
     status |-> IF r.hang THEN "hang" ELSE IF r.ok THEN "ok" ELSE "rejected"]

AddTxLocked(n, txid) ==
    IF ~VerifyTx(TxOf(txid), n.UTXO) THEN [n |-> n, status |-> "rejected"]
    ELSE IF txid \in n.Txs THEN [n |-> n, status |-> "rejected"]
    ELSE IF HasDoubleSpend(poolOf(n), TxOf(txid)) THEN [n |-> n, status |-> "rejected"]
    ELSE admitted(n, AddTxRBF(poolOf(n), txid, n.UTXO))

\* ------------------------------------------------------------------------
\* Network handler (the handler file holding handleBlock and handleHeaders)
\* A handler returns the node and the messages it sent to the peer.
\* ------------------------------------------------------------------------
LocatorDenseSteps == 10

RECURSIVE Skip(_, _, _)
Skip(blocks, h, k) == IF k = 0 \/ h = NoBlock THEN h ELSE Skip(blocks, blocks[h].Parent, k - 1)

RECURSIVE LocatorFrom(_, _, _, _)
LocatorFrom(blocks, h, step, height) ==
    IF h = NoBlock THEN <<>>
    ELSE LET step2 == IF height >= LocatorDenseSteps THEN step * 2 ELSE step
         IN  <<h>> \o LocatorFrom(blocks, Skip(blocks, h, step2), step2, height + 1)

buildBlockLocator(n) == LocatorFrom(n.Blocks, n.Best, 1, 0)

GetHeadersMsg(n) == [type |-> "getheaders", loc |-> buildBlockLocator(n), hash |-> NoBlock]
GetDataMsg(h) == [type |-> "getdata", loc |-> <<>>, hash |-> h]

HasMissingBodies(n) ==
    \E h \in DOMAIN n.Blocks :
        n.Blocks[h].Height > n.Blocks[n.Best].Height /\ n.Blocks[h].Block = NoBlock

AllBodiesDownloaded(n) ==
    \A h \in DOMAIN n.Blocks :
        n.Blocks[h].Block # NoBlock /\ Len(Blk(n.Blocks[h].Block).Transactions) > 0

\* bodies on the Parent walk from h down to the first entry without one
RECURSIVE BodiesWhile(_, _)
BodiesWhile(blocks, h) ==
    IF h = NoBlock THEN <<>>
    ELSE IF blocks[h].Block = NoBlock THEN <<>>
    ELSE BodiesWhile(blocks, blocks[h].Parent) \o <<blocks[h].Block>>

finishSyncing(n) ==
    RebuildUTXO([n EXCEPT !.BodiesSynced = TRUE, !.SyncState = SyncSynced, !.IsSyncing = FALSE,
                          !.Chain = BodiesWhile(n.Blocks, n.Best)])

\* the header-only entries met walking back from h, newest first, at most
\* BodyBatch of them
RECURSIVE missingFrom(_, _, _)
missingFrom(blocks, h, acc) ==
    IF h = NoBlock THEN acc
    ELSE IF blocks[h].Height <= 0 THEN acc
    ELSE LET acc2 == IF blocks[h].Block = NoBlock THEN Append(acc, h) ELSE acc
         IN  IF Len(acc2) >= BodyBatch THEN acc2 ELSE missingFrom(blocks, blocks[h].Parent, acc2)

requestMissingBlockBodies(n) ==
    LET missingBlocks == missingFrom(n.Blocks, n.Best, <<>>)
    IN  IF Len(missingBlocks) > 0
        THEN [n |-> n, out |-> [i \in 1..Len(missingBlocks) |->
                                   GetDataMsg(missingBlocks[Len(missingBlocks) + 1 - i])]]
        ELSE IF n.SyncState # SyncSynced THEN [n |-> finishSyncing(n), out |-> <<>>]
        ELSE [n |-> n, out |-> <<>>]

\* the loop of handleHeaders over the payload: unknown headers become
\* entries with the work the peer states; Best moves to a heavier one
RECURSIVE addHeaders(_, _, _)
addHeaders(n, hdrs, i) ==
    IF i > Len(hdrs) THEN n
    ELSE LET hdr == hdrs[i]
             bi == BlockIndex(hdr.Hash, hdr.PrevHash, hdr.Height, hdr.Bits, hdr.Timestamp,
                              hdr.CumWork, NoBlock,
                              IF hdr.PrevHash \in DOMAIN n.Blocks THEN hdr.PrevHash ELSE NoBlock)
         IN  IF hdr.Hash \in DOMAIN n.Blocks THEN addHeaders(n, hdrs, i + 1)
             ELSE addHeaders([n EXCEPT !.Blocks = MapPut(n.Blocks, hdr.Hash, bi),
                                       !.Best = IF hdr.CumWork > n.Blocks[n.Best].CumWork
                                                THEN hdr.Hash ELSE n.Best],
                             hdrs, i + 1)

settleHeaders(n) ==
    IF ~HasMissingBodies(n) THEN [n |-> finishSyncing(n), out |-> <<>>]
    ELSE requestMissingBlockBodies(n)

handleHeaders(n, hdrs) ==
    LET headersCount == Len(hdrs)
        addedCount == Cardinality({i \in DOMAIN hdrs :
                          /\ hdrs[i].Hash \notin DOMAIN n.Blocks
                          /\ \A j \in 1..(i - 1) : hdrs[j].Hash # hdrs[i].Hash})
        n1 == addHeaders(n, hdrs, 1)
        synced == [n1 EXCEPT !.HeadersSynced = TRUE]
    IN  IF headersCount = 0
        THEN IF n.SyncState # SyncSynced THEN settleHeaders(synced) ELSE [n |-> synced, out |-> <<>>]
        ELSE IF addedCount = 0 THEN settleHeaders(synced)
        ELSE IF headersCount >= HeaderBatch THEN [n |-> n1, out |-> <<GetHeadersMsg(n1)>>]
        ELSE requestMissingBlockBodies(synced)

\* handleBlock up to the call of AddBlock.  next: "return" or "addblock"
handleBlockHead(n, b) ==
    LET known == b.Hash \in DOMAIN n.Blocks
        stub == BlockIndex(b.Hash, b.PrevHash, b.Height, 0, 0, WorkFromTarget(b.Target),
                           NoBlock, NoBlock)
        n1 == IF known THEN n ELSE [n EXCEPT !.Blocks = MapPut(n.Blocks, b.Hash, stub)]
    IN  IF known /\ n.Blocks[b.Hash].Block # NoBlock
        THEN IF n.IsSyncing /\ n.Blocks[b.Hash].CumWork > n.Blocks[n.Best].CumWork
             THEN LET r == requestMissingBlockBodies(n)
                  IN  [n |-> r.n, out |-> r.out, next |-> "return"]
             ELSE [n |-> n, out |-> <<>>, next |-> "return"]
        ELSE IF b.PrevHash \notin DOMAIN n1.Blocks
             THEN [n |-> AddOrphan(n1, b), out |-> <<GetHeadersMsg(n1)>>, next |-> "return"]
        ELSE [n |-> n1, out |-> <<>>, next |-> "addblock"]

\* handleBlock after AddBlock returned true; inv tells whether the block
\* is announced to the other peers
handleBlockTail(n, b) ==
    LET n1 == [n EXCEPT !.Blocks[b.Hash].Block = b.Id, !.Blocks[b.Hash].Parent = b.PrevHash]
        n2 == IF n1.IsSyncing THEN finishSyncing(n1) ELSE n1
        r == requestMissingBlockBodies(n1)
    IN  IF n1.IsSyncing /\ ~AllBodiesDownloaded(n1) THEN [n |-> r.n, out |-> r.out, inv |-> FALSE]
        ELSE [n |-> n2, out |-> <<GetHeadersMsg(n2)>>, inv |-> n2.SyncState = SyncSynced]

\* Node.IsOnMainChain for the index entry of hash h
IsOnMainChain(n, h) ==
    /\ n.Blocks[h].Height < Len(n.Chain)
    /\ Blk(n.Chain[n.Blocks[h].Height + 1]).Hash = n.Blocks[h].Hash

\* handleGetHeaders on the node: the height of the first locator hash
\* that is in the index and on the main chain, -1 when there is none
RECURSIVE findStart(_, _, _)
findStart(n, loc, i) ==
    IF i > Len(loc) THEN -1
    ELSE IF loc[i] \in DOMAIN n.Blocks /\ IsOnMainChain(n, loc[i]) THEN n.Blocks[loc[i]].Height
    ELSE findStart(n, loc, i + 1)

\* the linear walk of the chain array from scanHeight: the index entries
\* of the blocks found, at most MaxHeaders of them
RECURSIVE scanChain(_, _, _)
scanChain(n, scanHeight, headers) ==
    IF ~(scanHeight < Len(n.Chain) /\ Len(headers) < MaxHeaders) THEN headers
    ELSE LET hash == Blk(n.Chain[scanHeight + 1]).Hash
         IN  scanChain(n, scanHeight + 1,
                       IF hash \in DOMAIN n.Blocks THEN Append(headers, n.Blocks[hash]) ELSE headers)

\* the headers message the node sends in reply to getheaders(loc)
replyToGetHeaders(n, loc) == scanChain(n, findStart(n, loc, 1) + 1, <<>>)

\* the check that closes OnMessage
OnMessageTail(n) ==
    IF n.IsSyncing /\ n.HeadersSynced /\ n.BodiesSynced
    THEN [RebuildUTXO(n) EXCEPT !.IsSyncing = FALSE] ELSE n

\* ------------------------------------------------------------------------
\* Peers.  A header as the headers message carries it, and the replies of
\* an honest peer whose main chain is PeerChain(h).
\* ------------------------------------------------------------------------
RECURSIVE ChainWork(_)
ChainWork(id) ==
    IF id = Genesis THEN computeWork(Blk(id).Target)
    ELSE ChainWork(BlockPrev(id)) + computeWork(Blk(id).Target)

HeaderDTO(id, cumWork) ==
    [Hash |-> Blk(id).Hash, PrevHash |-> Blk(id).PrevHash, Height |-> Blk(id).Height,
     CumWork |-> cumWork, Bits |-> Blk(id).Bits, Timestamp |-> Blk(id).Timestamp]

BlockIndexToHeaderDTO(id) == HeaderDTO(id, ChainWork(id))

HeadersMsg(hdrs) == [type |-> "headers", hdrs |-> hdrs, blk |-> NoBlock]
BlockMsg(id) == [type |-> "block", hdrs |-> <<>>, blk |-> id]
VerAckMsg == [type |-> "verack", hdrs |-> <<>>, blk |-> NoBlock]

\* handleGetHeaders on the peer: height of the first locator hash on its
\* main chain, -1 when there is none
RECURSIVE startHeight(_, _, _)
startHeight(h, loc, i) ==
    IF i > Len(loc) THEN -1
    ELSE IF loc[i] \in Range(PeerChain(h)) THEN loc[i][2]
    ELSE startHeight(h, loc, i + 1)

handleGetHeaders(h, loc) ==
    LET from == startHeight(h, loc, 1) + 1
        count == IF h + 1 - from > MaxHeaders THEN MaxHeaders ELSE h + 1 - from
    IN  HeadersMsg([i \in 1..count |-> BlockIndexToHeaderDTO(PeerChain(h)[from + i])])

handleGetData(h, hash) == IF hash \in Range(PeerChain(h)) THEN <<BlockMsg(hash)>> ELSE <<>>

RECURSIVE PeerReplies(_, _, _)
PeerReplies(h, out, i) ==
    IF i > Len(out) THEN <<>>
    ELSE (IF out[i].type = "getheaders" THEN <<handleGetHeaders(h, out[i].loc)>>
          ELSE handleGetData(h, out[i].hash))
         \o PeerReplies(h, out, i + 1)

\* header batches that arbitrary peers send: none, the honest header of
\* P1, and a header of C1 stating work it does not have
HeaderBatches ==
    {<<>>, <<BlockIndexToHeaderDTO(<<"P", 1>>)>>, <<HeaderDTO(<<"C", 1>>, HugeWork)>>,
     <<BlockIndexToHeaderDTO(<<"W", 1>>)>>}

\* ------------------------------------------------------------------------
\* Connections.  A peer is known by its address; its State follows the
\* version handshake.  A handler returns the peer's new state and the
\* messages sent to it.
\* ------------------------------------------------------------------------
Peers == {"A", "B"}

\* Network.AddConn: the node sends its version first
AddConn(st) == [state |-> StateVersionSent, out |-> <<"version">>]

handleVersion(st) ==
    [state |-> StateVersionRecv,
     out |-> (IF st = StateInit THEN <<"version">> ELSE <<>>) \o <<"verack">>]

\* handleVerAck with no state test: any verack activates the peer
handleVerAckAlways(st) == [state |-> StateActive, out |-> <<"getaddr", "getheaders">>]

handleVerAck(st) ==
    IF st >= StateVersionRecv THEN [state |-> StateActive, out |-> <<"getaddr", "getheaders">>]
    ELSE [state |-> st, out |-> <<>>]

\* the inv messages a broadcast sends: one to each peer in `to`, for the
\* item `item` that peer `from` delivered
InvTo(to, class, item, from) == {[to |-> q, class |-> class, item |-> item, from |-> from] : q \in to}

broadcastInvExcept(states, hash, except) ==
    InvTo({q \in Peers : q # except /\ states[q] = StateActive}, "block", hash, except)

broadcastTxInv(n, states, txid, from) ==
    IF n.SyncState # SyncSynced THEN {}
    ELSE InvTo({q \in Peers : states[q] = StateActive}, "tx", txid, from)

\* ------------------------------------------------------------------------
\* State
\* ------------------------------------------------------------------------
VARIABLES
    Blocks, Best, Chain, UTXO, Orphans,          \* Node fields
    IsSyncing, HeadersSynced, BodiesSynced, SyncState,
    Txs, Spent,                                  \* Mempool fields
    dbBlocks, dbIndex, dbBest, dbUtxo, dbMempool, \* database buckets
    nodeMu, poolMu,                              \* holder of Node.mu / Mempool.mu, 0 when free
    task,                                        \* the goroutines running handlers
    inbox,                                       \* messages from the honest peer, in order
    peerH,                                       \* height of the honest peer's chain, 0 without one
    ops,                                         \* handlers started so far
    peerState,                                   \* Peer.State of each connection
    lastMsg,                                     \* the handshake message handled last: <<peer, type>>
    sentInv,                                     \* the inv messages sent so far
    made,                                        \* the transactions wallets and miners have built
    calc,                                        \* a target on its way through the compact codec
    pm,                                          \* the PeerManager: Active entries, counters, read loops
    preempt                                      \* MinerResetChan and the tip the miner builds on

nodeVars == <<Blocks, Best, Chain, UTXO, Orphans, IsSyncing, HeadersSynced, BodiesSynced,
              SyncState, Txs, Spent, dbBlocks, dbIndex, dbBest, dbUtxo, dbMempool>>
sideVars == <<calc, pm, preempt>>
envVars == <<peerState, lastMsg, sentInv, made, sideVars>>
vars == <<nodeVars, nodeMu, poolMu, task, inbox, peerH, ops, envVars>>

Tasks == {1, 2}

N == [Blocks |-> Blocks, Best |-> Best, Chain |-> Chain, UTXO |-> UTXO, Orphans |-> Orphans,
      IsSyncing |-> IsSyncing, HeadersSynced |-> HeadersSynced, BodiesSynced |-> BodiesSynced,
      SyncState |-> SyncState, Txs |-> Txs, Spent |-> Spent, dbBlocks |-> dbBlocks,
      dbIndex |-> dbIndex, dbBest |-> dbBest, dbUtxo |-> dbUtxo, dbMempool |-> dbMempool]

Commit(n) ==
    /\ Blocks' = n.Blocks /\ Best' = n.Best /\ Chain' = n.Chain /\ UTXO' = n.UTXO
    /\ Orphans' = n.Orphans /\ IsSyncing' = n.IsSyncing /\ HeadersSynced' = n.HeadersSynced
    /\ BodiesSynced' = n.BodiesSynced /\ SyncState' = n.SyncState /\ Txs' = n.Txs
    /\ Spent' = n.Spent /\ dbBlocks' = n.dbBlocks /\ dbIndex' = n.dbIndex
    /\ dbBest' = n.dbBest /\ dbUtxo' = n.dbUtxo /\ dbMempool' = n.dbMempool

NodeIs(n) ==
    /\ Blocks = n.Blocks /\ Best = n.Best /\ Chain = n.Chain /\ UTXO = n.UTXO
    /\ Orphans = n.Orphans /\ IsSyncing = n.IsSyncing /\ HeadersSynced = n.HeadersSynced
    /\ BodiesSynced = n.BodiesSynced /\ SyncState = n.SyncState /\ Txs = n.Txs
    /\ Spent = n.Spent /\ dbBlocks = n.dbBlocks /\ dbIndex = n.dbIndex
    /\ dbBest = n.dbBest /\ dbUtxo = n.dbUtxo /\ dbMempool = n.dbMempool

\* a handler goroutine: where it stands, the block handleBlock was given,
\* the block the AddBlock call in progress was given, the orphans still
\* to be tried, the result of the first AddBlock call, the operations it
\* has been given so far, and the peer whose message it is handling
IdleTask == [pc |-> "idle", blk |-> NoBlock, cur |-> NoBlock, stack |-> <<>>, ret |-> "none",
             log |-> <<>>, from |-> NoPeer]

\* NewNode followed by Start on an empty database (initGenesis)
initGenesis ==
    LET genesis == Blk(Genesis)
        bi == BlockIndex(genesis.Hash, NoBlock, 0, genesis.Bits, genesis.Timestamp,
                         computeWork(CompactToBig(genesis.Bits)), genesis.Id, NoBlock)
        s == UTXOAdd([Set |-> EmptyMap, DB |-> EmptyMap], TxOf(genesis.Transactions[1]))
    IN  [Blocks |-> MapPut(EmptyMap, genesis.Hash, bi), Best |-> genesis.Hash,
         Chain |-> <<genesis.Id>>, UTXO |-> s.Set, Orphans |-> EmptyMap,
         IsSyncing |-> FALSE, HeadersSynced |-> FALSE, BodiesSynced |-> FALSE,
         SyncState |-> SyncIdle, Txs |-> {}, Spent |-> EmptyMap,
         dbBlocks |-> MapPut(EmptyMap, genesis.Hash, genesis.Id),
         dbIndex |-> MapPut(EmptyMap, genesis.Hash, bi), dbBest |-> genesis.Hash,
         dbUtxo |-> s.DB, dbMempool |-> {}]

\* NewNode followed by Start on the database a previous run left
Start(n) ==
    LET indexes == [h \in DOMAIN n.dbIndex |->
                       [n.dbIndex[h] EXCEPT
                           !.Block = IF h \in DOMAIN n.dbBlocks THEN n.dbBlocks[h] ELSE NoBlock,
                           !.Parent = IF n.dbIndex[h].PrevHash \in DOMAIN n.dbIndex
                                      THEN n.dbIndex[h].PrevHash ELSE NoBlock]]
    IN  [n EXCEPT !.Blocks = indexes, !.Best = n.dbBest,
                  !.Chain = BodiesTo(indexes, n.dbBest),
                  !.UTXO = n.dbUtxo, !.Orphans = EmptyMap,
                  !.Txs = n.dbMempool, !.Spent = EmptyMap,
                  !.IsSyncing = TRUE, !.HeadersSynced = FALSE, !.BodiesSynced = FALSE,
                  !.SyncState = IF indexes[n.dbBest].Height = 0 THEN SyncIBD ELSE SyncHeaders]

NoCalc == [stage |-> "none", t |-> 0, unit |-> 0, bits |-> 0, back |-> 0]

\* NewPeerManager: no entry.  Active holds the keys of the Active map, Out
\* the entries whose Peer.Outbound is set, ConnNil the entries whose
\* Peer.Conn is nil, Loops the peers whose ReadLoop runs, Ended those whose
\* ReadLoop has returned, Swept those a cleanup pass has visited since,
\* Dialing the addresses a Connect goroutine is dialling
NewPeerManager ==
    [Active |-> {}, Inbound |-> 0, Outbound |-> 0, Out |-> {}, ConnNil |-> {},
     Loops |-> {}, Ended |-> {}, Swept |-> {}, MaxPeers |-> MaxPeers, Dialing |-> {}]

\* PeerManager.onNewConn for a connection with the remote host p
onNewConn(m, p, outbound) ==
    IF Cardinality(m.Active) >= m.MaxPeers THEN m
    ELSE [m EXCEPT !.Active = @ \cup {p},
                   !.Out = IF outbound THEN @ \cup {p} ELSE @ \ {p},
                   !.ConnNil = @ \ {p},
                   !.Outbound = IF outbound THEN @ + 1 ELSE @,
                   !.Inbound = IF outbound THEN @ ELSE @ + 1,
                   !.Loops = @ \cup {p}, !.Ended = @ \ {p}, !.Swept = @ \ {p}]

\* Peer.ReadLoop returns when Decode fails
endReadLoop(m, p) == [m EXCEPT !.Loops = @ \ {p}, !.Ended = @ \cup {p}]

\* Peer.IsClosed
IsClosed(m, p) == p \in m.ConnNil

\* PeerManager.cleanup: the entries whose peer IsClosed are deleted and
\* their counters decremented
cleanup(m) ==
    LET closed == {p \in m.Active : IsClosed(m, p)}
    IN  [m EXCEPT !.Active = @ \ closed,
                  !.Outbound = @ - Cardinality(closed \cap m.Out),
                  !.Inbound = @ - Cardinality(closed \ m.Out),
                  !.Swept = m.Ended]

\* an empty channel; the miner starts on the tip `tip`
\* nonce is the candidate's Nonce, since the passes of the loop of
\* Block.Mine made after the last call of the abort callback, out what
\* Miner.Mine is doing or has returned
NewResetChan(tip) == [pending |-> 0, seen |-> tip, nonce |-> 0, since |-> 0, out |-> "none"]

\* no connection yet, no transaction built
NothingYet ==
    /\ peerState = [p \in Peers |-> StateInit]
    /\ lastMsg = <<NoPeer, "none">>
    /\ sentInv = {}
    /\ made = {}
    /\ calc = NoCalc
    /\ pm = NewPeerManager

Init ==
    /\ NothingYet
    /\ NodeIs(initGenesis)
    /\ preempt = NewResetChan(Genesis)
    /\ nodeMu = 0 /\ poolMu = 0
    /\ task = [t \in Tasks |-> IdleTask]
    /\ inbox = <<>> /\ peerH = 0 /\ ops = 0

InitSync ==
    /\ NothingYet
    /\ NodeIs(initGenesis)
    /\ preempt = NewResetChan(Genesis)
    /\ nodeMu = 0 /\ poolMu = 0
    /\ task = [t \in Tasks |-> IdleTask]
    /\ peerH \in 1..MaxPeerHeight
    /\ inbox = <<VerAckMsg>> /\ ops = 0

\* ------------------------------------------------------------------------
\* Handler steps.  handleBlock runs in four stretches: up to the call of
\* AddBlock; AddBlock from Lock to Unlock; AddBlock after Unlock, once per
\* block (the waiting orphans are tried depth-first); the rest of
\* handleBlock.  Each returns the node and the goroutine after it.
\* ------------------------------------------------------------------------
\* the AddBlock call in progress returns ret: the next waiting orphan is
\* tried, or the first call's result goes back to handleBlock
Returned(tk, ret) ==
    LET first == IF tk.ret = "none" THEN ret ELSE tk.ret
    IN  IF tk.stack # <<>>
        THEN [tk EXCEPT !.pc = "addblock", !.cur = Head(tk.stack), !.stack = Tail(tk.stack),
                        !.ret = first]
        ELSE IF first = "true" THEN [tk EXCEPT !.pc = "tail", !.ret = first]
        ELSE [tk EXCEPT !.pc = "idle", !.ret = first]

Logged(tk, kind, id) == [tk EXCEPT !.log = Append(tk.log, <<kind, id>>)]

headResult(r, called) ==
    IF r.next = "return"
    THEN [n |-> OnMessageTail(r.n), tk |-> [called EXCEPT !.pc = "idle"], out |-> r.out]
    ELSE [n |-> r.n, tk |-> [called EXCEPT !.pc = "addblock"], out |-> r.out]

headStep(n, tk, b) ==
    headResult(handleBlockHead(n, b),
               [Logged(tk, "block", b.Id) EXCEPT !.blk = b.Id, !.cur = b.Id,
                                                 !.stack = <<>>, !.ret = "none"])

afterAddBlock(tk, status) ==
    IF status = "ok" THEN [tk EXCEPT !.pc = "post"]
    ELSE IF status = "deadlock" THEN [tk EXCEPT !.pc = "hung"]
    ELSE IF status = "panic" THEN [tk EXCEPT !.pc = "dead"]
    ELSE Returned(tk, IF status = "dup" THEN "true" ELSE "false")

closeMessage(n, tk2) ==
    [n |-> IF tk2.pc = "idle" THEN OnMessageTail(n) ELSE n, tk |-> tk2, out |-> <<>>]

addBlockResult(tk, r) == closeMessage(r.n, afterAddBlock(tk, r.status))

addBlockStep(n, tk) == addBlockResult(tk, AddBlockLocked(n, Blk(tk.cur)))

waiting(n, hash) == IF hash \in DOMAIN n.Orphans THEN n.Orphans[hash] ELSE <<>>

postStep(n, tk) ==
    [n |-> [removeConfirmedTxs(n, Blk(tk.cur)) EXCEPT
               !.Orphans = MapDel(n.Orphans, Blk(tk.cur).Hash)],
     tk |-> Returned([tk EXCEPT !.stack = waiting(n, Blk(tk.cur).Hash) \o tk.stack], "true"),
     out |-> <<>>]

tailResult(tk, r) == [n |-> OnMessageTail(r.n), tk |-> [tk EXCEPT !.pc = "idle"], out |-> r.out]

tailStep(n, tk) == tailResult(tk, handleBlockTail(n, Blk(tk.blk)))

addTxResult(tk, r) ==
    [n |-> IF r.status = "hang" THEN r.n ELSE OnMessageTail(r.n),
     tk |-> [tk EXCEPT !.pc = IF r.status = "hang" THEN "hung" ELSE "idle",
                       !.ret = IF r.status = "ok" THEN "true" ELSE "false"],
     out |-> <<>>]

addTxStep(n, tk, txid) == addTxResult(Logged(tk, "tx", txid), AddTxLocked(n, txid))

headersStep(n, tk, hdrs) == tailResult(tk, handleHeaders(n, hdrs))

\* ------------------------------------------------------------------------
\* Actions
\* ------------------------------------------------------------------------
\* peer.Send: the honest peer answers each request in order
Send(out, rest) ==
    inbox' = IF peerH > 0 THEN rest \o PeerReplies(peerH, out, 1) ELSE rest

\* the goroutine waits for a mutex whose holder never releases it
Waits(t) ==
    /\ task' = [task EXCEPT ![t].pc = "blocked"]
    /\ UNCHANGED <<nodeVars, nodeMu, poolMu, inbox>>

\* the inv messages `invs` leave the node
Announce(invs) == sentInv' = sentInv \cup invs /\ UNCHANGED <<peerState, lastMsg, made, calc, pm>>

\* handleBlock of peermanager.go after AddBlock returned true: a
\* non-blocking send on MinerResetChan when the block is the tip
notifyMiner(n, hash, chan) == IF n.Best = hash THEN [chan EXCEPT !.pending = 1] ELSE chan

\* the step r of goroutine t takes effect; a goroutine stuck inside the
\* locked region keeps the node mutex and, inside AddTxRBF, the pool mutex
Took(t, r, rest, inPool) ==
    /\ Commit(r.n)
    /\ task' = IF r.tk.pc = "dead" THEN [u \in Tasks |-> [task[u] EXCEPT !.pc = "dead"]]
               ELSE [task EXCEPT ![t] = r.tk]
    /\ nodeMu' = IF r.tk.pc = "hung" THEN t ELSE nodeMu
    /\ poolMu' = IF r.tk.pc = "hung" /\ inPool THEN t ELSE poolMu
    /\ Send(r.out, rest)

\* handleBlock(p, b) up to the call of AddBlock
HandleBlockOf(t, p, b, rest) ==
    /\ task[t].pc = "idle"
    /\ \E r \in {headStep(N, [task[t] EXCEPT !.from = p], b)} : Took(t, r, rest, FALSE)
    /\ UNCHANGED <<peerH, envVars>>

HandleBlockFrom(t, b, rest) == HandleBlockOf(t, NoPeer, b, rest)

\* a block message from some peer
RecvBlock(t) ==
    \E id \in Offered :
        /\ ops < MaxOps /\ ops' = ops + 1
        /\ HandleBlockFrom(t, Blk(id), inbox)

\* a block message carrying a forged block
RecvForged(t) ==
    \E id \in Forged :
        /\ ops < MaxOps /\ ops' = ops + 1
        /\ HandleBlockFrom(t, Blk(id), inbox)

\* the next message of the honest peer is a block
DeliverBlock(t) ==
    /\ inbox # <<>> /\ Head(inbox).type = "block"
    /\ HandleBlockFrom(t, Blk(Head(inbox).blk), Tail(inbox))
    /\ UNCHANGED ops

\* Node.AddBlock from Lock to Unlock
AddBlock(t) ==
    /\ task[t].pc = "addblock"
    /\ IF nodeMu # 0 THEN Waits(t) ELSE \E r \in {addBlockStep(N, task[t])} : Took(t, r, inbox, FALSE)
    /\ UNCHANGED <<peerH, ops, envVars>>

\* Node.AddBlock after Unlock: removeConfirmedTxs, attachOrphans
Post(t) ==
    /\ task[t].pc = "post"
    /\ IF poolMu # 0 /\ NonCoinbase(Blk(task[t].cur)) # {} THEN Waits(t)
       ELSE \E r \in {postStep(N, task[t])} : Took(t, r, inbox, FALSE)
    /\ UNCHANGED <<peerH, ops, envVars>>

\* handleBlock after AddBlock returned true; the block is announced to
\* the peers other than the one it came from
BlockTail(t) ==
    /\ task[t].pc = "tail"
    /\ \E r \in {tailStep(N, task[t])} : Took(t, r, inbox, FALSE)
    /\ Announce(IF handleBlockTail(N, Blk(task[t].blk)).inv
                THEN broadcastInvExcept(peerState, Blk(task[t].blk).Hash, task[t].from)
                ELSE {})
    /\ preempt' = notifyMiner(N, Blk(task[t].blk).Hash, preempt)
    /\ UNCHANGED <<peerH, ops>>

\* handleTx(p, tx): Node.AddTx from Lock to the deferred Unlock, then
\* broadcastTxInv when AddTx returned true
HandleTxOf(t, p, txid) ==
    /\ task[t].pc = "idle"
    /\ ops < MaxOps /\ ops' = ops + 1
    /\ UNCHANGED preempt
    /\ IF nodeMu # 0 THEN Waits(t) /\ UNCHANGED <<peerState, lastMsg, sentInv, made, calc, pm>>
       ELSE \E r \in {addTxStep(N, [task[t] EXCEPT !.from = p], txid)} :
               /\ Took(t, r, inbox, TRUE)
               /\ Announce(IF r.tk.pc = "idle" /\ r.tk.ret = "true"
                           THEN broadcastTxInv(r.n, peerState, TxOf(txid).ID, p)
                           ELSE {})
    /\ UNCHANGED peerH

AddTx(t) == \E txid \in UserTxs : HandleTxOf(t, NoPeer, txid)

\* handleHeaders takes no lock
HandleHeadersFrom(t, hdrs, rest) ==
    /\ task[t].pc = "idle"
    /\ \E r \in {headersStep(N, task[t], hdrs)} : Took(t, r, rest, FALSE)
    /\ UNCHANGED <<peerH, envVars>>

\* a headers message from some peer
RecvHeaders(t) ==
    \E hdrs \in HeaderBatches :
        /\ ops < MaxOps /\ ops' = ops + 1
        /\ HandleHeadersFrom(t, hdrs, inbox)

DeliverHeaders(t) ==
    /\ inbox # <<>> /\ Head(inbox).type = "headers"
    /\ HandleHeadersFrom(t, Head(inbox).hdrs, Tail(inbox))
    /\ UNCHANGED ops

\* handleVerAck: the peer becomes active and is asked for headers
DeliverVerAck(t) ==
    /\ task[t].pc = "idle"
    /\ inbox # <<>> /\ Head(inbox).type = "verack"
    /\ Send(<<GetHeadersMsg(N)>>, Tail(inbox))
    /\ UNCHANGED <<nodeVars, nodeMu, poolMu, task, peerH, ops, envVars>>

\* the process is stopped and started again on its database
Restart ==
    /\ ops < MaxOps /\ ops' = ops + 1
    /\ Commit(Start(N))
    /\ nodeMu' = 0 /\ poolMu' = 0
    /\ task' = [t \in Tasks |-> IdleTask]
    /\ inbox' = <<>>
    /\ peerState' = [p \in Peers |-> StateInit]
    /\ lastMsg' = <<NoPeer, "restart">>
    /\ pm' = NewPeerManager
    /\ preempt' = NewResetChan(Start(N).Best)
    /\ UNCHANGED <<peerH, sentInv, made, calc>>

\* the miner's interrupt test inside Block.Mine: it takes the pending
\* signal if there is one, else compares the tip with the one it mines on;
\* either way it gives up its block and starts again on the current tip
interruptCheck(n, chan) == [chan EXCEPT !.pending = 0, !.seen = n.Best]

MinerCheck ==
    /\ preempt # interruptCheck(N, preempt)
    /\ preempt' = interruptCheck(N, preempt)
    /\ UNCHANGED <<nodeVars, nodeMu, poolMu, task, inbox, peerH, ops, peerState, lastMsg,
                   sentInv, made, calc, pm>>

\* handlers run one at a time, fed by arbitrary peers and clients
Next ==
    \/ RecvBlock(1) \/ AddBlock(1) \/ Post(1) \/ BlockTail(1)
    \/ AddTx(1) \/ RecvHeaders(1) \/ Restart \/ RecvForged(1)

Spec == Init /\ [][Next]_vars

\* the same node with its miner running
NextMiner == Next \/ MinerCheck

SpecMiner == Init /\ [][NextMiner]_vars

\* a fresh node connected to one honest peer
NextSync ==
    \/ DeliverVerAck(1) \/ DeliverHeaders(1) \/ DeliverBlock(1)
    \/ AddBlock(1) \/ Post(1) \/ BlockTail(1)

SpecSync == InitSync /\ [][NextSync]_vars

\* two goroutines (peer read loops, RPC) are each given one operation on
\* a fresh node and run it step by step, in any interleaving
RaceBlock(t) == task[t].log = <<>> /\ RecvBlock(t)
RaceTx(t) == task[t].log = <<>> /\ AddTx(t)

NextRace ==
    \E t \in Tasks : RaceBlock(t) \/ RaceTx(t) \/ AddBlock(t) \/ Post(t) \/ BlockTail(t)

SpecRace == Init /\ [][NextRace]_vars

\* a handler run from its current stretch to the point where it returns
\* or stops for good, with no other goroutine in between
RECURSIVE Run(_)
Run(r) ==
    IF r.tk.pc = "addblock" THEN Run(addBlockStep(r.n, r.tk))
    ELSE IF r.tk.pc = "post" THEN Run(postStep(r.n, r.tk))
    ELSE IF r.tk.pc = "tail" THEN Run(tailStep(r.n, r.tk))
    ELSE r

\* the operation op = <<kind, id>> run alone on node n
Alone(n, op) ==
    IF op[1] = "block" THEN Run(headStep(n, IdleTask, Blk(op[2])))
    ELSE addTxStep(n, IdleTask, op[2])

\* the operations `ops` run one after the other on node n
RECURSIVE Serially(_, _, _)
Serially(n, ops_, i) ==
    IF i > Len(ops_) THEN n
    ELSE Only({Serially(n2, ops_, i + 1) : n2 \in {Alone(n, ops_[i]).n}})

\* a node that has accepted P1 and P2 and holds Q1 and Q2 as a side chain
\* is offered the next blocks of both branches, and may be restarted
InitReorg ==
    /\ NothingYet
    /\ NodeIs(Serially(initGenesis, <<<<"block", <<"P", 1>>>>, <<"block", <<"P", 2>>>>,
                                      <<"block", <<"Q", 1>>>>, <<"block", <<"Q", 2>>>>>>, 1))
    /\ preempt = NewResetChan(<<"P", 2>>)
    /\ nodeMu = 0 /\ poolMu = 0
    /\ task = [t \in Tasks |-> IdleTask]
    /\ inbox = <<>> /\ peerH = 0 /\ ops = 0

RecvSide(t) ==
    \E id \in SideBranch :
        /\ ops < MaxOps /\ ops' = ops + 1
        /\ HandleBlockFrom(t, Blk(id), inbox)

NextReorg == RecvSide(1) \/ AddBlock(1) \/ Post(1) \/ BlockTail(1) \/ Restart

SpecReorg == InitReorg /\ [][NextReorg]_vars

\* a node that has caught up with block P1 while its peers connect,
\* reconnect and deliver blocks and transactions
RelayedBlocks == {<<"P", 1>>, <<"P", 2>>, <<"Q", 1>>}
RelayedTxs == {T0, T1}

InitNet ==
    /\ NothingYet
    /\ NodeIs(Serially(Start(initGenesis), <<<<"block", <<"P", 1>>>>>>, 1))
    /\ preempt = NewResetChan(<<"P", 1>>)
    /\ nodeMu = 0 /\ poolMu = 0
    /\ task = [t \in Tasks |-> IdleTask]
    /\ inbox = <<>>
    /\ peerH = 0
    /\ ops = 0

\* the read loop of peer p hands a handshake message to its handler
Handshake(p, type, r) ==
    /\ ops < MaxOps /\ ops' = ops + 1
    /\ peerState' = [peerState EXCEPT ![p] = r.state]
    /\ lastMsg' = <<p, type>>
    /\ UNCHANGED <<nodeVars, nodeMu, poolMu, task, inbox, peerH, sentInv, made, calc, preempt>>

\* PeerManager.onNewConn: an inbound connection starts in StateInit
Accept(p) ==
    /\ Handshake(p, "accept", [state |-> StateInit, out |-> <<>>])
    /\ pm' = onNewConn(pm, p, FALSE)

\* PeerManager.Connect: dials unless half the slots are outbound or the
\* address is already active
Connect(p) ==
    /\ pm.Outbound < pm.MaxPeers \div 2 /\ p \notin pm.Active
    /\ Handshake(p, "connect", [state |-> StateInit, out |-> <<"version">>])
    /\ pm' = onNewConn(pm, p, TRUE)

\* the socket of peer p fails or is closed by the remote side
SockError(p) ==
    /\ p \in pm.Loops
    /\ pm' = endReadLoop(pm, p)
    /\ UNCHANGED <<nodeVars, nodeMu, poolMu, task, inbox, peerH, ops, peerState, lastMsg,
                   sentInv, made, calc, preempt>>

\* a tick of PeerManager.maintain
Cleanup ==
    /\ pm' = cleanup(pm)
    /\ UNCHANGED <<nodeVars, nodeMu, poolMu, task, inbox, peerH, ops, peerState, lastMsg,
                   sentInv, made, calc, preempt>>
Dial(p) == Handshake(p, "dial", AddConn(peerState[p])) /\ UNCHANGED pm
RecvVersion(p) == Handshake(p, "version", handleVersion(peerState[p])) /\ UNCHANGED pm
RecvVerAck(p) == Handshake(p, "verack", handleVerAck(peerState[p])) /\ UNCHANGED pm

PeerBlock(t, p) ==
    \E id \in RelayedBlocks :
        /\ ops < MaxOps /\ ops' = ops + 1
        /\ HandleBlockOf(t, p, Blk(id), inbox)

PeerTx(t, p) == \E txid \in RelayedTxs : HandleTxOf(t, p, txid)

NextNet ==
    \/ \E p \in Peers : Accept(p) \/ Dial(p) \/ RecvVersion(p) \/ RecvVerAck(p)
    \/ \E p \in Peers : Connect(p) \/ SockError(p)
    \/ Cleanup
    \/ \E p \in Peers : PeerBlock(1, p) \/ PeerTx(1, p)
    \/ AddBlock(1) \/ Post(1) \/ BlockTail(1) \/ Restart

SpecNet == InitNet /\ [][NextNet]_vars

\* two read loops of the synced node handle the messages of their peers
\* concurrently
PeerSide(t, p) ==
    /\ ops < MaxOps /\ ops' = ops + 1
    /\ HandleBlockOf(t, p, Blk(<<"S", 1>>), inbox)

NextLock ==
    \E t \in Tasks :
        \/ PeerTx(t, "A") \/ PeerBlock(t, "A") \/ PeerSide(t, "A") \/ RecvHeaders(t)
        \/ AddBlock(t) \/ Post(t) \/ BlockTail(t)

SpecLock == InitNet /\ [][NextLock]_vars

\* ------------------------------------------------------------------------
\* The miner's nonce search (miner/miner.go Mine, blockchain/block.go Mine)
\* next to a node that receives P1, P2, header batches and transactions
\* ------------------------------------------------------------------------
CheckEvery == 1000
MaxNonce == 1001

\* Node.GetBestBlock: the body of the best entry, nil when it has none
GetBestBlock(n) == n.Blocks[n.Best].Block

\* Miner.Mine up to the call of block.Mine: nil without a best block, else
\* a candidate with Nonce 0 on top of it
startMine(n, chan) ==
    IF GetBestBlock(n) = NoBlock THEN [chan EXCEPT !.out = "nil"]
    ELSE [chan EXCEPT !.seen = Blk(GetBestBlock(n)).Hash, !.nonce = 0, !.since = 0,
                      !.out = "mining"]

\* the callback that ignores the tip
abortOnSignalOnly(n, chan) == chan.pending = 1

\* the callback Miner.Mine hands to block.Mine: a signal is waiting on the
\* channel, or there is no best block, or its hash is not the original tip
abortNow(n, chan) ==
    \/ chan.pending = 1
    \/ GetBestBlock(n) = NoBlock
    \/ Blk(GetBestBlock(n)).Hash # chan.seen

\* one pass of the loop of block.Mine; the callback runs when Nonce is a
\* multiple of CheckEvery and takes the signal off the channel; found says
\* whether the hash of this nonce meets the target
mineStep(n, chan, found) ==
    LET checks == chan.nonce % CheckEvery = 0
        called == IF checks THEN [chan EXCEPT !.pending = 0, !.since = 0]
                  ELSE [chan EXCEPT !.since = @ + 1]
    IN  IF checks /\ abortNow(n, chan) THEN [called EXCEPT !.out = "nil"]
        ELSE IF found THEN [called EXCEPT !.out = "block"]
        ELSE [called EXCEPT !.nonce = @ + 1]

MineStart ==
    /\ preempt.out # "mining"
    /\ preempt' = startMine(N, preempt)
    /\ UNCHANGED <<nodeVars, nodeMu, poolMu, task, inbox, peerH, ops, peerState, lastMsg,
                   sentInv, made, calc, pm>>

MineStep ==
    /\ preempt.out = "mining" /\ preempt.nonce < MaxNonce
    /\ \E found \in BOOLEAN : preempt' = mineStep(N, preempt, found)
    /\ UNCHANGED <<nodeVars, nodeMu, poolMu, task, inbox, peerH, ops, peerState, lastMsg,
                   sentInv, made, calc, pm>>

\* a block message with P1
RecvTip(t) ==
    /\ ops < MaxOps /\ ops' = ops + 1
    /\ HandleBlockFrom(t, Blk(<<"P", 1>>), inbox)

\* a headers message with the header of P1
RecvTipHeader(t) ==
    /\ ops < MaxOps /\ ops' = ops + 1
    /\ HandleHeadersFrom(t, <<BlockIndexToHeaderDTO(<<"P", 1>>)>>, inbox)

\* a tx message with T1
RecvSpend(t) == HandleTxOf(t, NoPeer, T1)

NextMine ==
    \/ RecvTip(1) \/ AddBlock(1) \/ Post(1) \/ BlockTail(1) \/ RecvTipHeader(1)
    \/ RecvSpend(1) \/ MineStart \/ MineStep

SpecMine == Init /\ [][NextMine]_vars

\* ------------------------------------------------------------------------
\* A node whose chain ends one block before the first retarget is offered
\* the next two blocks, each with the Bits the rule asks for and with the
\* Bits of the other period
\* ------------------------------------------------------------------------
FirstPeriod == [i \in 1..(DifficultyInterval - 1) |-> <<"block", <<"P", i>>>>]

BitsOffered ==
    {<<br, h>> : br \in {"P", "B"}, h \in {DifficultyInterval, DifficultyInterval + 1}}

InitBits ==
    /\ NothingYet
    /\ NodeIs(Serially(initGenesis, FirstPeriod, 1))
    /\ preempt = NewResetChan(<<"P", DifficultyInterval - 1>>)
    /\ nodeMu = 0 /\ poolMu = 0
    /\ task = [t \in Tasks |-> IdleTask]
    /\ inbox = <<>> /\ peerH = 0 /\ ops = 0

RecvBits(t) ==
    \E id \in BitsOffered :
        /\ ops < MaxOps /\ ops' = ops + 1
        /\ HandleBlockFrom(t, Blk(id), inbox)

NextBits == RecvBits(1) \/ AddBlock(1) \/ Post(1) \/ BlockTail(1) \/ Restart

SpecBits == InitBits /\ [][NextBits]_vars

\* ------------------------------------------------------------------------
\* Concurrent outbound dials (ensurePeers starts one Connect goroutine per
\* address) on a PeerManager built with MaxPeers = DialCap
\* ------------------------------------------------------------------------
DialCap == 2

InitDial ==
    /\ NodeIs(Serially(Start(initGenesis), <<<<"block", <<"P", 1>>>>>>, 1))
    /\ peerState = [p \in Peers |-> StateInit]
    /\ lastMsg = <<NoPeer, "none">>
    /\ sentInv = {} /\ made = {} /\ calc = NoCalc
    /\ pm = [NewPeerManager EXCEPT !.MaxPeers = DialCap]
    /\ preempt = NewResetChan(<<"P", 1>>)
    /\ nodeMu = 0 /\ poolMu = 0
    /\ task = [t \in Tasks |-> IdleTask]
    /\ inbox = <<>> /\ peerH = 0 /\ ops = 0

\* Connect from Lock to Unlock: the two checks; the goroutine then dials
\* without the mutex
ConnectBegin(p) ==
    /\ p \notin pm.Dialing
    /\ pm.Outbound < pm.MaxPeers \div 2 /\ p \notin pm.Active
    /\ pm' = [pm EXCEPT !.Dialing = @ \cup {p}]
    /\ UNCHANGED <<nodeVars, nodeMu, poolMu, task, inbox, peerH, ops, peerState, lastMsg,
                   sentInv, made, calc, preempt>>

\* net.Dial returns: on an error Connect returns, else onNewConn registers
\* the connection and sends our version
ConnectEnd(p) ==
    /\ p \in pm.Dialing
    /\ \/ /\ pm' = [pm EXCEPT !.Dialing = @ \ {p}]
          /\ UNCHANGED <<nodeVars, nodeMu, poolMu, task, inbox, peerH, ops, peerState,
                         lastMsg, sentInv, made, calc, preempt>>
       \/ /\ Handshake(p, "connect", [state |-> StateInit, out |-> <<"version">>])
          /\ pm' = onNewConn([pm EXCEPT !.Dialing = @ \ {p}], p, TRUE)

NextDial ==
    \E p \in Peers :
        \/ ConnectBegin(p) \/ ConnectEnd(p) \/ Accept(p) \/ SockError(p)
        \/ RecvVersion(p) \/ RecvVerAck(p) \/ Cleanup

SpecDial == InitDial /\ [][NextDial]_vars

\* ------------------------------------------------------------------------
\* RPC clients submit transactions (rpc/server.go, sendrawtransaction) to a
\* node at P1 whose mempool was built by NewMempool(PoolCap, db)
\* ------------------------------------------------------------------------
PoolCap == 2

RpcTxs == {T0, T1, T2, T5, T7}

sizedPool(n) == [poolOf(n) EXCEPT !.MaxTx = PoolCap]

\* sendrawtransaction: Node.VerifyTx, then Mempool.AddTxRBF; neither takes
\* the node mutex
sendRawTransaction(n, txid) ==
    IF ~VerifyTx(TxOf(txid), n.UTXO) THEN [n |-> n, status |-> "rejected"]
    ELSE admitted(n, AddTxRBF(sizedPool(n), txid, n.UTXO))

rpcReturn(tk, status) ==
    [tk EXCEPT !.pc = IF status = "hang" THEN "hung" ELSE "idle",
               !.ret = IF status = "ok" THEN "true" ELSE "false"]

RpcSendTx(t) ==
    \E txid \in RpcTxs :
        /\ task[t].pc = "idle"
        /\ ops < MaxOps /\ ops' = ops + 1
        /\ IF poolMu # 0 THEN Waits(t) /\ UNCHANGED sentInv
           ELSE \E r \in {sendRawTransaction(N, txid)} :
                   /\ Commit(r.n)
                   /\ task' = [task EXCEPT ![t] = rpcReturn(Logged(task[t], "tx", txid), r.status)]
                   /\ poolMu' = IF r.status = "hang" THEN t ELSE poolMu
                   /\ sentInv' = sentInv \cup
                          (IF r.status = "ok"
                           THEN broadcastTxInv(r.n, peerState, TxOf(txid).ID, NoPeer) ELSE {})
                   /\ UNCHANGED <<nodeMu, inbox>>
        /\ UNCHANGED <<peerH, peerState, lastMsg, made, sideVars>>

NextPool == (\E t \in Tasks : RpcSendTx(t)) \/ Restart

SpecPool == InitNet /\ [][NextPool]_vars

\* wallets and miners build transactions: inputs spending output 0 of
\* P1's coinbase with the Sig and PubKey fields as the caller filled them
BuiltInput(sig, pub) == [TxID |-> <<"cb", "P", 1>>, Index |-> 0, Sig |-> sig, PubKey |-> pub]
BuiltInputs == {<<>>, <<BuiltInput("", "")>>, <<BuiltInput("K1", "K1")>>, <<BuiltInput("K2", "K1")>>}
BuiltOutputs == {<<[Amount |-> Reward - a, To |-> PubKeyToAddress("K2")]>> : a \in 1..2}
Keys == {"K1", "K2"}
Stamps == {"1700000001", "1700000002"}

Builds(tx) ==
    /\ ops < MaxOps /\ ops' = ops + 1
    /\ made' = made \cup {tx}
    /\ UNCHANGED <<nodeVars, nodeMu, poolMu, task, inbox, peerH, peerState, lastMsg, sentInv, sideVars>>

BuildTx == \E inputs \in BuiltInputs, outputs \in BuiltOutputs : Builds(NewTransaction(inputs, outputs))
SignTx == \E tx \in made, key \in Keys : Builds(Sign(tx, key))
MineCoinbase == \E sig \in Stamps : Builds(StampedCoinbase(PubKeyToAddress("K1"), Reward, sig))

NextTxId == BuildTx \/ SignTx \/ MineCoinbase

SpecTxId == Init /\ [][NextTxId]_vars

\* a target is encoded by BigToCompact and decoded by CompactToBig: the
\* small targets, the targets around the 2- and 3-byte and the mantissa
\* limits, taken as they are (unit 0) or in units of 256^TargetUnitBytes
CodecTargets ==
    (1..MaxSmallTarget) \cup {65535, 65536, 65537, 8388607, 8388608, 8388609,
                              16777215, 16777216, 16777217, NodeTarget, 2147483647}
CodecUnits == {0, TargetUnitBytes}

InitCodec ==
    /\ NodeIs(initGenesis)
    /\ preempt = NewResetChan(Genesis)
    /\ nodeMu = 0 /\ poolMu = 0
    /\ task = [t \in Tasks |-> IdleTask]
    /\ inbox = <<>> /\ peerH = 0 /\ ops = 0
    /\ peerState = [p \in Peers |-> StateInit]
    /\ lastMsg = <<NoPeer, "none">>
    /\ sentInv = {}
    /\ made = {}
    /\ pm = NewPeerManager
    /\ \E t \in CodecTargets, unit \in CodecUnits :
           calc = [stage |-> "target", t |-> t, unit |-> unit, bits |-> 0, back |-> 0]

Codec(c) ==
    /\ calc' = c
    /\ UNCHANGED <<nodeVars, nodeMu, poolMu, task, inbox, peerH, ops, peerState, lastMsg, sentInv,
                   made, pm, preempt>>

Encode ==
    /\ calc.stage = "target"
    /\ Codec([calc EXCEPT !.stage = "bits", !.bits = BigToCompactIn(calc.t, calc.unit)])

Decode ==
    /\ calc.stage = "bits"
    /\ Codec([calc EXCEPT !.stage = "back", !.back = CompactToBigIn(calc.bits, calc.unit)])

NextCodec == Encode \/ Decode

SpecCodec == InitCodec /\ [][NextCodec]_vars

\* ------------------------------------------------------------------------
\* Properties
\* ------------------------------------------------------------------------
GenesisUTXO == initGenesis.UTXO

\* the state after applying the blocks `ids` in order, inputs that are
\* missing being skipped as updateUTXO skips them
Replay(ids) == ReplayChain([Set |-> EmptyMap, DB |-> EmptyMap], ids, 1).Set

\* the blocks ids[i..] validate one after the other from the state s
RECURSIVE validFrom(_, _, _)
validFrom(s, ids, i) ==
    IF i > Len(ids) THEN TRUE
    ELSE /\ Blk(ids[i]).Height % DifficultyInterval # 0 => Blk(ids[i]).Bits = Blk(ids[i - 1]).Bits
         /\ VerifyBlockWithUTXO(Blk(ids[i]), ids[i - 1], [Set |-> s, DB |-> s]).ok
         /\ validFrom(ApplyTxs([Set |-> s, DB |-> s], Blk(ids[i]).Transactions, 1).Set, ids, i + 1)

\* a chain of bodies that starts at genesis and validates block by block
ValidChain(ids) == ids # <<>> /\ ids[1] = Genesis /\ validFrom(GenesisUTXO, ids, 2)

\* entry h has a body, so has every ancestor, and the bodies validate
Sound(h) ==
    /\ \A i \in DOMAIN PathFrom(Blocks, h) : Blocks[PathFrom(Blocks, h)[i]].Block # NoBlock
    /\ ValidChain(BodiesTo(Blocks, h))

\* C1: the tip entry has a body, every ancestor of it has a body and
\* validates, and no other such entry has strictly more cumulative work.
C1_TipIsHeaviestSoundEntry ==
    /\ Sound(Best)
    /\ \A h \in DOMAIN Blocks : Sound(h) => Blocks[h].CumWork <= Blocks[Best].CumWork

\* C2: no goroutine requests a mutex it already holds, so no call of
\* AddBlock or AddTx is left waiting for itself.
C2_NoSelfDeadlock == \A t \in Tasks : task[t].pc # "hung"

PeerTip == PeerChain(peerH)[peerH + 1]

SyncedRight ==
    /\ Best = PeerTip
    /\ \A i \in DOMAIN PathFrom(Blocks, Best) : Blocks[PathFrom(Blocks, Best)[i]].Block # NoBlock
    /\ PathFrom(Blocks, Best)[Len(PathFrom(Blocks, Best))] = Genesis
    /\ UTXO = Replay(PeerChain(peerH))

NewInChain == {i \in DOMAIN Chain' : i > Len(Chain) \/ Chain[i] # Chain'[i]}

\* the UTXO set immediately before and after the block at position i of
\* Chain' is applied: the node's own set when the block extends the chain,
\* the replay of the blocks below it when the chain was rebuilt
Extends == Len(Chain') = Len(Chain) + 1 /\ SubSeq(Chain', 1, Len(Chain)) = Chain
UtxoBefore(i) == IF Extends THEN UTXO ELSE Replay(SubSeq(Chain', 1, i - 1))
UtxoAfter(i) == IF Extends THEN UTXO' ELSE Replay(SubSeq(Chain', 1, i))

BlockInputs(id) == UNION {InputKeys(TxOf(x)) : x \in NonCoinbase(Blk(id))}

\* C3: every non-coinbase input of a block that becomes part of the main
\* chain is in the UTXO set immediately before the block is applied and
\* is not in it immediately after.
C3_InputsSpentOnce ==
    [][\A i \in NewInChain : \A k \in BlockInputs(Chain'[i]) :
            k \in DOMAIN UtxoBefore(i) /\ k \notin DOMAIN UtxoAfter(i)]_vars

\* what a failed acceptance must leave alone
Kept(n) == <<n.Blocks, n.Chain, n.Best, n.UTXO, n.Txs, n.Spent, n.Orphans>>

Quiet == task[1].pc = "idle" /\ nodeMu = 0

\* the block b, delivered now, is passed to AddBlock and fails validation
FailsValidation(b) ==
    /\ handleBlockHead(N, b).next = "addblock"
    /\ AddBlockLocked(handleBlockHead(N, b).n, b).status = "fail"

\* C4: a block that fails validation against its parent leaves the block
\* index, the main chain, the tip, the UTXO set, the mempool and the
\* orphan pool as they were before it was delivered.
C4_RejectedBlockChangesNothing ==
    \A id \in Offered :
        (Quiet /\ FailsValidation(Blk(id)))
            => Kept(AddBlockLocked(handleBlockHead(N, Blk(id)).n, Blk(id)).n) = Kept(N)

\* the catalogue's path from genesis to block id
RECURSIVE Branch(_)
Branch(id) == IF id = Genesis THEN <<id>> ELSE Append(Branch(BlockPrev(id)), id)

\* every block of the branch below its tip has been delivered and is held
Delivered(ids) ==
    \A i \in 1..(Len(ids) - 1) : ids[i] \in DOMAIN Blocks /\ Blocks[ids[i]].Block # NoBlock

\* the block id, delivered now, completes a valid branch heavier than the tip
CompletesHeavier(id) ==
    /\ Quiet
    /\ id \in DOMAIN Blocks => Blocks[id].Block = NoBlock
    /\ Delivered(Branch(id))
    /\ ValidChain(Branch(id))
    /\ ChainWork(id) > Blocks[Best].CumWork

\* the node after handleBlock passed block id to AddBlock
Accepted(id) == AddBlockLocked(handleBlockHead(N, Blk(id)).n, Blk(id)).n

\* C5: when the last block of a valid branch with more cumulative work
\* than the tip is delivered, the tip becomes that branch's tip, the main
\* chain is the path from genesis to it and the UTXO set is its replay.
C5_HeavierBranchWins ==
    \A id \in Offered : CompletesHeavier(id) =>
        /\ Accepted(id).Best = id
        /\ Accepted(id).Chain = Branch(id)
        /\ Accepted(id).UTXO = Replay(Branch(id))

PoolOutputs(except) ==
    UNION {{utxoKey(x, i - 1) : i \in DOMAIN TxOf(x).Outputs} : x \in Txs \ {except}}

\* C6: every input of every mempool transaction is in the UTXO set or is
\* an output of another mempool transaction.
C6_PoolInputsSpendable ==
    \A x \in Txs : InputKeys(TxOf(x)) \subseteq (DOMAIN UTXO \cup PoolOutputs(x))

\* C7: no outpoint is an input of two different mempool transactions.
C7_NoPoolDoubleSpend ==
    \A x \in Txs : \A y \in Txs \ {x} : InputKeys(TxOf(x)) \cap InputKeys(TxOf(y)) = {}

\* the residents that claim an outpoint tx x spends
Conflicting(x) == {y \in Txs : InputKeys(TxOf(y)) \cap InputKeys(TxOf(x)) # {}}

Outbids(x) == \A y \in Conflicting(x) : Fee(TxOf(x), UTXO) > Fee(TxOf(y), UTXO)

\* C8: admitting a valid transaction that conflicts with residents
\* succeeds exactly when its fee is strictly greater than each of theirs;
\* then the residents are gone and it is present, otherwise the residents
\* stay and it is absent.
C8_ReplaceByHigherFeeOnly ==
    \A x \in UserTxs :
        (Quiet /\ x \notin Txs /\ Conflicting(x) # {} /\ VerifyTx(TxOf(x), UTXO)) =>
            /\ AddTxLocked(N, x).status = "ok" <=> Outbids(x)
            /\ AddTxLocked(N, x).status = "ok" =>
                   (x \in AddTxLocked(N, x).n.Txs /\ Conflicting(x) \cap AddTxLocked(N, x).n.Txs = {})
            /\ AddTxLocked(N, x).status # "ok" =>
                   (x \notin AddTxLocked(N, x).n.Txs /\ Conflicting(x) \subseteq AddTxLocked(N, x).n.Txs)

Outcome(n) == <<n.Blocks, n.Best, n.Chain, n.UTXO, n.Txs>>

\* running a then b one at a time from the fresh node, both return and
\* leave the state the node is in
SerialGives(a, b) ==
    /\ Alone(initGenesis, a).tk.pc = "idle"
    /\ Alone(Alone(initGenesis, a).n, b).tk.pc = "idle"
    /\ Outcome(Alone(Alone(initGenesis, a).n, b).n) = Outcome(N)

BothReturned == \A t \in Tasks : task[t].pc = "idle" /\ task[t].log # <<>>

\* C9: when two operations issued concurrently have both returned, the
\* block index, tip, main chain, UTXO set and mempool are those of running
\* the two operations one at a time in one of the two orders.
C9_Serialisable ==
    BothReturned =>
        \/ SerialGives(task[1].log[1], task[2].log[1])
        \/ SerialGives(task[2].log[1], task[1].log[1])

\* the blocks connectBlock has accepted and persisted, genesis apart
AcceptedBlocks == DOMAIN dbBlocks \ {Genesis}

\* the fees of a block's transactions against the state its parent leaves
BlockFees(id) ==
    SumAmounts([i \in DOMAIN Blk(id).Transactions |->
                   Fee(TxOf(Blk(id).Transactions[i]), Replay(Branch(BlockPrev(id))))],
               DOMAIN Blk(id).Transactions)

Coinbases(id) == {i \in DOMAIN Blk(id).Transactions : TxOf(Blk(id).Transactions[i]).IsCoinbase}

\* C11: the coinbase of every accepted block pays at most the block
\* reward plus the fees of the block's other transactions.
C11_CoinbaseWithinReward ==
    \A id \in AcceptedBlocks : \A i \in Coinbases(id) :
        OutSum(TxOf(Blk(id).Transactions[i])) <= Reward + BlockFees(id)

\* C12: every accepted block holds exactly one transaction flagged as
\* coinbase, at index 0.
C12_OneCoinbaseFirst == \A id \in AcceptedBlocks : Coinbases(id) = {1}

\* C13: the Merkle root in the header of every accepted block is the root
\* recomputed over the ids of the transactions of its body.
C13_MerkleRootMatchesBody ==
    \A id \in AcceptedBlocks : Blk(id).MerkleRoot = ComputeMerkleRoot(Blk(id).Transactions)

\* entry h points to the entry its previous-hash names and its cumulative
\* work is that parent's plus the work of its own bits
LinkedToParent(h) ==
    /\ Blocks[h].PrevHash \in DOMAIN Blocks
    /\ Blocks[h].Parent = Blocks[h].PrevHash
    /\ Blocks[h].CumWork
         = Blocks[Blocks[h].PrevHash].CumWork + computeWork(CompactToBig(Blocks[h].Bits))

\* C14: whenever no handler is running, every index entry other than
\* genesis, created from a header or from a block, is linked to the entry
\* of its previous-hash and carries that parent's cumulative work plus
\* the work of its own target.
C14_IndexEntriesLinked == Quiet => \A h \in DOMAIN Blocks \ {Genesis} : LinkedToParent(h)

\* goroutine t is inside AddBlock with a block that does not extend the
\* tip, and the step makes that block the tip: connectBlock reorganised
ReorgBy(t) ==
    /\ task[t].pc = "addblock" /\ nodeMu = 0
    /\ task[t].cur # Best
    /\ Blk(task[t].cur).PrevHash # Best
    /\ Best' = task[t].cur

TxsIn(ids) == UNION {Range(Blk(id).Transactions) : id \in ids}

\* the blocks the step takes off the main chain and puts on it
DisconnectedBlocks == Range(Chain) \ Range(Chain')
ConnectedBlocks == Range(Chain') \ Range(Chain)

Activated(p) == peerState[p] # StateActive /\ peerState'[p] = StateActive

C16_ActiveOnlyByVerAck ==
    [][\A p \in Peers :
         /\ Activated(p) => (lastMsg' = <<p, "verack">> /\ peerState[p] = StateVersionRecv)
         /\ (peerState[p] # StateVersionRecv /\ peerState'[p] = StateVersionRecv)
                => lastMsg' = <<p, "version">>
         /\ (lastMsg' = <<p, "verack">> /\ peerState[p] < StateVersionRecv)
                => peerState'[p] = peerState[p]]_vars

C16_Witness ==
    /\ peerState["A"] = StateActive /\ lastMsg = <<"A", "verack">>
    /\ peerState["B"] = StateVersionSent

\* the locators of the getheaders requests: up to two hashes in any order,
\* known or unknown (Z9) to the node
LocatorHashes == {Genesis, <<"P", 1>>, <<"P", 2>>, <<"C", 1>>, <<"Z", 9>>}
Locators ==
    {<<>>} \cup {<<a>> : a \in LocatorHashes} \cup {<<a, b>> : a \in LocatorHashes, b \in LocatorHashes}

\* the locator hashes on the node's main chain, and the height of the
\* highest of them (-1 without one)
OnMainChain(loc) ==
    {loc[i] : i \in {j \in DOMAIN loc : loc[j] \in DOMAIN Blocks /\ IsOnMainChain(N, loc[j])}}

HighestOnMainChain(loc) ==
    IF OnMainChain(loc) = {} THEN -1
    ELSE CHOOSE x \in {Blocks[h].Height : h \in OnMainChain(loc)} :
             \A h \in OnMainChain(loc) : Blocks[h].Height <= x

\* C17: the reply to a getheaders request holds at most 2000 headers, all
\* of blocks of the main-chain array, at consecutive heights that start
\* right after the highest locator hash on the main chain
C17_HeadersFollowLocator ==
    \A loc \in Locators :
        /\ Len(replyToGetHeaders(N, loc)) <= MaxHeaders
        /\ \A i \in DOMAIN replyToGetHeaders(N, loc) :
               /\ replyToGetHeaders(N, loc)[i].Hash \in Range(Chain)
               /\ replyToGetHeaders(N, loc)[i].Height = HighestOnMainChain(loc) + i

\* C18: an inv message is never sent to the peer whose block or
\* transaction it announces
C18_NeverBackToSender == \A m \in sentInv : m.to # m.from

\* ------------------------------------------------------------------------
\* Transaction identifiers
\* ------------------------------------------------------------------------
\* the transaction without its ID and without the signature bytes of its
\* inputs
WithoutSignatures(tx) ==
    [tx EXCEPT !.ID = NoTx,
               !.Inputs = [i \in DOMAIN tx.Inputs |-> [tx.Inputs[i] EXCEPT !.Sig = ""]]]

\* C19: two transactions that differ only in the signature bytes of their
\* inputs carry the same ID
C19_IdIgnoresSignature ==
    \A a \in made, b \in made : WithoutSignatures(a) = WithoutSignatures(b) => a.ID = b.ID

\* ------------------------------------------------------------------------
\* Duplicate delivery
\* ------------------------------------------------------------------------
\* the index holds an entry with a body under the hash of block id
HeldWithBody(id) == Blk(id).Hash \in DOMAIN Blocks /\ Blocks[Blk(id).Hash].Block # NoBlock

\* C20: a block message whose hash is already in the index with a body
\* leaves the index, the main chain, the tip, the UTXO set, the mempool
\* and the orphan pool unchanged, in whatever state it arrives
C20_DuplicateChangesNothing ==
    \A id \in Offered :
        (Quiet /\ HeldWithBody(id)) => Kept(Alone(N, <<"block", id>>).n) = Kept(N)

\* ------------------------------------------------------------------------
\* Compact codec
\* ------------------------------------------------------------------------
\* t is a mantissa of at most 23 bits times a power of 256
Representable(t) == \E k \in 0..3 : t % (256 ^ k) = 0 /\ t \div (256 ^ k) < 8388608

\* C21: decoding the compact form of a positive target gives at most the
\* target, and the target itself when it is representable
C21_CompactRoundTrip ==
    calc.stage = "back" =>
        /\ calc.back <= calc.t
        /\ Representable(calc.t) => calc.back = calc.t

\* ------------------------------------------------------------------------
\* Orphans
\* ------------------------------------------------------------------------
\* block id waits in the orphan pool for its parent
InOrphanPool(id) == \E h \in DOMAIN Orphans : \E i \in DOMAIN Orphans[h] : Orphans[h][i] = id

\* goroutine t called AddBlock on a block and never comes back from it
StuckInAddBlock(t) == task[t].pc = "hung" /\ poolMu # t

\* C22: a block delivered before its parent is held; the call that accepts
\* the parent returns, and after it the held block has been accepted and has
\* left the orphan pool
C22_OrphanFollowsParent ==
    /\ \A t \in Tasks : ~StuckInAddBlock(t)
    /\ Quiet => \A id \in Offered :
                    HeldWithBody(BlockPrev(id)) => HeldWithBody(id) \/ ~InOrphanPool(id)

\* ------------------------------------------------------------------------
\* Header admission
\* ------------------------------------------------------------------------
\* the hash of block id is at most the target of its Bits
MeetsTarget(id) == Blk(id).Pow

\* C23: an entry is in the index, and is the tip, only if its hash satisfies
\* the proof-of-work target of its Bits
C23_HeadersCarryWork == MeetsTarget(Best) /\ \A h \in DOMAIN Blocks : MeetsTarget(h)

\* ------------------------------------------------------------------------
\* End of synchronisation
\* ------------------------------------------------------------------------
\* the tip and each of its ancestors in the index has a body
TipChainHasBodies ==
    \A i \in DOMAIN PathFrom(Blocks, Best) : Blocks[PathFrom(Blocks, Best)[i]].Block # NoBlock

\* C24: in the step that sets the sync state to SyncSynced, the tip and
\* every ancestor of the tip has a body
C24_SyncedOnlyWithBodies ==
    [][(SyncState # SyncSynced /\ SyncState' = SyncSynced) => TipChainHasBodies']_vars

\* ------------------------------------------------------------------------
\* Locking
\* ------------------------------------------------------------------------
\* the fields of Node that its mutex guards
GuardedState ==
    <<Blocks, Best, Chain, UTXO, Orphans, IsSyncing, HeadersSynced, BodiesSynced, SyncState>>

\* C25: every write to the shared node state is made holding the node
\* mutex: while one goroutine keeps the mutex, no step of another goroutine
\* changes the state the mutex guards
C25_WritesHoldMutex == [][nodeMu # 0 => GuardedState' = GuardedState]_vars

\* ------------------------------------------------------------------------
\* UTXO clones
\* ------------------------------------------------------------------------
\* the transactions of the offered blocks
OfferedTxs == {TxOf(txid) : txid \in TxsIn(Offered)}

\* C26: adding the outputs of a transaction to a clone of the node's UTXO
\* set, or spending its inputs from the clone, leaves the original as it
\* was: its map and its durable bucket
C26_CloneLeavesOriginal ==
    \A tx \in OfferedTxs :
        /\ UTXOClone(utxoOf(N)).Set = UTXO
        /\ UTXOAdd(UTXOClone(utxoOf(N)), tx).DB = dbUtxo
        /\ UTXOSpend(UTXOClone(utxoOf(N)), tx).DB = dbUtxo

\* ------------------------------------------------------------------------
\* Side-chain blocks
\* ------------------------------------------------------------------------
\* goroutine t is about to run AddBlock on a new block that is valid on
\* its branch, whose parent is held but is not the tip, and whose
\* cumulative work does not exceed the tip's
AddsSideBlock(t) ==
    /\ task[t].pc = "addblock" /\ nodeMu = 0
    /\ Blk(task[t].cur).PrevHash \in DOMAIN Blocks
    /\ Blk(task[t].cur).PrevHash # Best
    /\ Blk(task[t].cur).Hash # Best
    /\ Blocks[Blk(task[t].cur).Hash].Block = NoBlock
    /\ Blk(task[t].cur).Hash \notin DOMAIN Orphans
    /\ TipChainHasBodies
    /\ Delivered(Branch(task[t].cur)) /\ ValidChain(Branch(task[t].cur))
    /\ Blocks[Blk(task[t].cur).PrevHash].CumWork + computeWork(Blk(task[t].cur).Target)
          <= Blocks[Best].CumWork

\* goroutine t finishes AddBlock (removeConfirmedTxs, attachOrphans) for a
\* valid block that is not on the main chain
EndsSideBlock(t) ==
    task[t].pc = "post" /\ task[t].cur \notin Range(Chain) /\ ValidChain(Branch(task[t].cur))

\* what a side-chain block must leave alone
TipState == <<Best, Chain, UTXO, dbBest, Txs, Spent>>

\* C27: accepting a valid block whose parent is not the tip and whose
\* cumulative work is not strictly greater than the tip's puts the block in
\* the index with its body and leaves the tip, the main chain, the UTXO set,
\* the persisted tip hash and the mempool unchanged
C27_SideBlockOnlyIndexed ==
    [][\A t \in Tasks :
          /\ (AddsSideBlock(t) /\ AddBlock(t) /\ task'[t].pc = "post") =>
                /\ Blocks'[Blk(task[t].cur).Hash].Block = task[t].cur
                /\ dbBlocks'[Blk(task[t].cur).Hash] = task[t].cur
                /\ \A h \in DOMAIN Blocks \ {Blk(task[t].cur).Hash} : Blocks'[h] = Blocks[h]
                /\ TipState' = TipState
          /\ (EndsSideBlock(t) /\ Post(t)) => TipState' = TipState]_vars

\* ------------------------------------------------------------------------
\* The main-chain array
\* ------------------------------------------------------------------------
\* C28: whenever no handler is running, the chain array has one element
\* per height up to the tip's, element i is the body of the tip's ancestor
\* at height i, and the last element is the tip's body
C28_ChainDense ==
    Quiet =>
        /\ Len(Chain) = Blocks[Best].Height + 1
        /\ Chain = Reverse([i \in DOMAIN PathFrom(Blocks, Best) |->
                              Blocks[PathFrom(Blocks, Best)[i]].Block])
        /\ \A i \in DOMAIN Chain : Blk(Chain[i]).Height = i - 1

\* ------------------------------------------------------------------------
\* Disconnection
\* ------------------------------------------------------------------------
\* C29: once the read loop of a peer has ended on a socket error and the
\* peer manager has made a cleanup pass, the peer is in neither the active
\* set nor the broadcast table, and the counters count the entries left
C29_ClosedPeerRemoved ==
    pm.Swept # {} =>
        /\ \A p \in pm.Swept : p \notin pm.Active /\ peerState[p] # StateActive
        /\ pm.Inbound = Cardinality(pm.Active \ pm.Out)
        /\ pm.Outbound = Cardinality(pm.Active \cap pm.Out)

\* ------------------------------------------------------------------------
\* Miner preemption
\* ------------------------------------------------------------------------
\* C30: every change of the tip is followed by a signal on the preemption
\* channel: whenever no handler is running and the tip is not the one the
\* miner works on, a signal is pending
C30_TipChangeSignalled == (Quiet /\ Best # preempt.seen) => preempt.pending = 1

\* C31: every index entry that holds a body is keyed by the hash computed
\* from that body's header, and the body declares that same hash
C31_IndexKeyedByComputedHash ==
    \A h \in DOMAIN Blocks :
        Blocks[h].Block # NoBlock =>
            /\ CalcHash(Blk(Blocks[h].Block)) = h
            /\ Blk(Blocks[h].Block).Hash = CalcHash(Blk(Blocks[h].Block))

\* the mempool as a call of AddTxRBF may change it
PoolState == <<Txs, Spent, dbMempool>>

\* t's call of sendrawtransaction has returned a rejection
Rejects(t) == RpcSendTx(t) /\ task'[t].pc = "idle" /\ task'[t].ret = "false"

Submitted(t) == task[t].log[Len(task[t].log)][2]

ResidentFee(x) == Fee(TxOf(x), UTXO)

\* the lowest fee among the residents
LowestFee == CHOOSE f \in {ResidentFee(y) : y \in Txs} : \A y \in Txs : f <= ResidentFee(y)

\* goroutine t runs AddTxRBF for the valid transaction x on a full mempool
SubmitsToFull(t, x) ==
    /\ RpcSendTx(t) /\ poolMu = 0
    /\ Submitted(t)' = x /\ VerifyTx(TxOf(x), UTXO)
    /\ Cardinality(Txs) >= PoolCap

\* C35: on a full mempool a transaction whose fee is above the lowest
\* resident fee replaces one resident of that lowest fee, any other
\* transaction is rejected and the mempool stays as it was; only the
\* former is ever reported as admitted
C35_FullPoolEvictsLowest ==
    [][\A t \in Tasks, x \in RpcTxs :
          SubmitsToFull(t, x) =>
              IF ResidentFee(x) > LowestFee
              THEN \E l \in Txs : /\ ResidentFee(l) = LowestFee
                                  /\ Txs' = (Txs \ {l}) \cup {x}
                                  /\ dbMempool' = (dbMempool \ {l}) \cup {x}
              ELSE task'[t].ret = "false" /\ PoolState' = PoolState]_vars

\* T7 was admitted to the full mempool {T0, T5} and T0 evicted for it
C35_Witness ==
    /\ Txs = {T5, T7}
    /\ task[1].pc = "idle" /\ task[1].ret = "true"
    /\ task[1].log = <<<<"tx", T0>>, <<"tx", T5>>, <<"tx", T7>>>>

\* the outpoints the residents spend, each with the resident spending it
SpentBy(k) == {x \in Txs : k \in InputKeys(TxOf(x))}

\* C40: while no admission is in progress the spent-map is the inverse of
\* the transaction map: an outpoint is a key iff a resident spends it, and
\* it maps to that resident
C40_SpentIsInverseOfTxs ==
    poolMu = 0 =>
        /\ \A k \in DOMAIN Spent : Spent[k] \in SpentBy(k)
        /\ \A x \in Txs : InputKeys(TxOf(x)) \subseteq DOMAIN Spent

\* the headers message now handled adds an entry to the index
AddsHeaders(t) == DeliverHeaders(t) /\ DOMAIN Blocks' # DOMAIN Blocks

\* C33: a headers message that adds an unknown header is answered with a
\* getheaders whose locator starts from the new best-work entry, and the
\* headers phase is not marked complete by it
C33_NewHeadersAskForMore ==
    [][\A t \in Tasks :
          AddsHeaders(t) =>
              /\ inbox' = Tail(inbox) \o PeerReplies(peerH, <<GetHeadersMsg(N')>>, 1)
              /\ HeadersSynced' = HeadersSynced]_vars

\* the header-only entries on the Parent walk from the best-work entry
HeaderOnlyAncestors ==
    {h \in Range(PathFrom(Blocks, Best)) : Blocks[h].Block = NoBlock}

\* the bodies asked for and not yet handled: the peer answers each getdata
\* with the block
BodiesAsked == {inbox[i].blk : i \in {j \in DOMAIN inbox : inbox[j].type = "block"}}

\* C34: at most one body is asked for at a time, and it is the body of
\* the header-only ancestor of the best-work entry with the lowest height
C34_OneLowestBodyAsked ==
    /\ Cardinality(BodiesAsked) <= 1
    /\ \A b \in BodiesAsked :
          /\ b \in HeaderOnlyAncestors
          /\ \A h \in HeaderOnlyAncestors : Blocks[b].Height <= Blocks[h].Height

\* a message of peer p is handled on its open connection
HandlesMessageOf(p) == RecvVersion(p) \/ RecvVerAck(p)

\* C36: handling a message of a peer never moves its state backwards; an
\* active peer stays active whatever it sends
C36_PeerStateNeverBackwards ==
    [][\A p \in Peers : HandlesMessageOf(p) => peerState'[p] >= peerState[p]]_vars

\* the entries of the active set that were dialled by this node
OutboundPeers == pm.Active \cap pm.Out

\* C37: whatever the order in which concurrent dials proceed, at most half
\* of MaxPeers outbound peers are registered
C37_OutboundWithinHalf ==
    /\ Cardinality(OutboundPeers) <= pm.MaxPeers \div 2
    /\ pm.Outbound <= pm.MaxPeers \div 2

\* the Bits the difficulty rule asks of a block on the index entry p
RuleBits(p) ==
    IF (Blocks[p].Height + 1) % DifficultyInterval = 0
    THEN BigToCompact(retargetDifficulty(Blocks, p).target)
    ELSE Blocks[p].Bits

FollowsRule(b) ==
    /\ b.PrevHash \in DOMAIN Blocks
    /\ b.Height = Blocks[b.PrevHash].Height + 1
    /\ b.Bits = RuleBits(b.PrevHash)

\* C38: every block that connectBlock indexes and stores carries the Bits
\* the rule asks for on its parent: the compact form of the retargeted
\* target at a multiple of the interval, the parent's Bits elsewhere
C38_AcceptedBitsFollowRule ==
    [][\A h \in DOMAIN dbBlocks' \ DOMAIN dbBlocks : FollowsRule(Blk(dbBlocks'[h]))]_vars

\* both wrong blocks were refused and both right ones accepted
C38_Witness ==
    /\ Quiet
    /\ <<"block", <<"B", DifficultyInterval>>>> \in Range(task[1].log)
    /\ <<"block", <<"B", DifficultyInterval + 1>>>> \in Range(task[1].log)
    /\ DOMAIN dbBlocks \cap BitsOffered = {<<"P", DifficultyInterval>>, <<"P", DifficultyInterval + 1>>}
    /\ Best = <<"P", DifficultyInterval + 1>>

\* the miner is inside block.Mine
Mining == preempt.out = "mining"

\* what the abort callback looks at: a waiting signal, or a best block
\* other than the one the candidate is built on
MustAbort ==
    \/ preempt.pending = 1
    \/ Blocks[Best].Block = NoBlock
    \/ Blk(Blocks[Best].Block).Hash # preempt.seen

\* C39: while the miner searches, fewer than CheckEvery passes go by
\* between two calls of the abort callback and the next pass can always be
\* taken, whoever holds the mutexes; a call made while a signal waits or
\* the tip is no longer the candidate's parent ends the search without a
\* block, and a search that ends with a block was not told to abort at
\* its last call
C39_MinerChecksAndAborts ==
    /\ [](Mining => preempt.since < CheckEvery)
    /\ []((Mining /\ preempt.nonce < MaxNonce) => ENABLED MineStep)
    /\ [][MineStep =>
            /\ (preempt.nonce % CheckEvery = 0 /\ MustAbort) => preempt'.out = "nil"
            /\ (preempt.nonce % CheckEvery = 0 /\ ~MustAbort) => preempt'.out # "nil"
            /\ preempt.nonce % CheckEvery # 0 => preempt'.out # "nil"]_vars

\* the miner gave up at its second call of the callback, made while a
\* goroutine stuck in AddTx held the node mutex
C39_Witness ==
    /\ preempt.out = "nil" /\ preempt.nonce = CheckEvery
    /\ nodeMu # 0

====
